---- MODULE Spec2Model ----
(***************************************************************************)
(* Rule pipeline of the instrumentation layer                              *)
(* (sqreen/lib/instrumentation/patch.js): the patched function             *)
(* (Patch.build/instrumented), the dispatch of one rule list (runCbs), the *)
(* execution of one callback (runUniqueCb), the aggregation of a phase's   *)
(* results (actOnCbResult) and the routing of their telemetry              *)
(* (performRecordAndObservation).                                          *)
(*                                                                         *)
(* JavaScript runs one flow at a time: a state of the model is the state   *)
(* of the process at a point where control may leave patch.js (a rule body *)
(* is running, a rule is about to be processed, a phase's list has been    *)
(* run) and every action is the code between two such points.              *)
(***************************************************************************)
EXTENDS Integers, Sequences, FiniteSets, TLC

\* ------------------------------------------------------------------ bounds

\* The most callback descriptors a call site holds, all four lists together.
MaxCbs == 2

\* The largest remaining time (ms) a session budget starts with.
MaxRemain == 1

\* ------------------------------------------------------------------ values

\* A remaining time: a number of milliseconds, or Infinity.
Ms(n) == [inf |-> FALSE, ms |-> n]

\* Budget.INFINITY.remain (and the Infinity of runUniqueCb's noBudget case).
Infinity == [inf |-> TRUE, ms |-> 0]

\* x <= 0 of JavaScript, for a remaining time.
LeZero(x) == ~x.inf /\ x.ms <= 0

Max(a, b) == IF a >= b THEN a ELSE b

\* Elapsed wall time (ms) of one bracket, as measured by the clock.
Elapsed == {0, 1}

\* The three rule purposes.
Purposes == {"protection", "monitoring", "reveal"}

\* The rule of a descriptor that carries none (rule === undefined; runUniqueCb
\* then uses {}), and the one of a result that carries none.
NoRule ==
  [name |-> 0, purpose |-> "protection", cap |-> FALSE, test |-> FALSE,
   block |-> FALSE, enabled |-> TRUE]

\* The callback descriptors the installer hands to a call site: {method, rule},
\* with method.noBudget, rule.purpose, rule.exception_cap (present or not),
\* rule.test, rule.block and rule.enabled. Each descriptor owns its rule object.
\*   1  a blocking protection rule with an exception cap
\*   2  a blocking protection rule marked noBudget (a mandatory check)
\*   3  a dry-run monitoring rule without an exception cap
\*   4  a reveal rule
\*   5  a descriptor without a method
\* (a rule becomes disabled when its exception cap says so).
Descs ==
  { [hasMethod |-> TRUE, noBudget |-> FALSE,
     rule |-> [name |-> 1, purpose |-> "protection", cap |-> TRUE, test |-> FALSE,
               block |-> TRUE, enabled |-> TRUE]],
    [hasMethod |-> TRUE, noBudget |-> TRUE,
     rule |-> [name |-> 2, purpose |-> "protection", cap |-> FALSE, test |-> FALSE,
               block |-> TRUE, enabled |-> TRUE]],
    [hasMethod |-> TRUE, noBudget |-> FALSE,
     rule |-> [name |-> 3, purpose |-> "monitoring", cap |-> FALSE, test |-> TRUE,
               block |-> FALSE, enabled |-> TRUE]],
    [hasMethod |-> TRUE, noBudget |-> FALSE,
     rule |-> [name |-> 4, purpose |-> "reveal", cap |-> FALSE, test |-> FALSE,
               block |-> FALSE, enabled |-> TRUE]],
    [hasMethod |-> FALSE, noBudget |-> FALSE,
     rule |-> [name |-> 5, purpose |-> "protection", cap |-> FALSE, test |-> FALSE,
               block |-> FALSE, enabled |-> TRUE]] }

\* The lists of n descriptors.
ListsOfLen(n) == [1..n -> Descs]

\* The rule lists a caller may pass: n descriptors, n <= MaxCbs.
Lists == UNION {ListsOfLen(n) : n \in 0..MaxCbs}

\* ------------------------------------------------------------------ state

VARIABLES
  lock,         \* process.__sqreen_cb, the dispatch lock
  blockAll,     \* Config.block_all_rules
  patch,        \* the Patch of the call site: its four lists and derived flags
  sess,         \* the continuation-local context (CLS) of the current request
  budget,       \* the object behind rawSession.get('budget') || Budget.ZERO
  monitBudget,  \* the object behind rawSession.get('monitBudget') || Budget.ZERO
  stack,        \* the calls of the patched function in progress, outermost first
  record,       \* what the Record of the current request has been handed
  sink,         \* what the global sinks have been handed for the current request
  done,         \* how the last outermost call of the patched function ended
  fuzzer,       \* the Fuzzer (replay coordinator) and the requests it is handed
  aggList,      \* the result list of an actOnCbResult call looked at on its own
  outcome,      \* what that call returned, and what its collaborators did
  callCount,    \* the module's callCount object: a counter per key
  logged        \* the call-count feature, and what logExec has seen and emitted

vars ==
  <<lock, blockAll, patch, sess, budget, monitBudget, stack, record, sink, done,
    aggList, outcome, callCount, logged, fuzzer>>

\* The variables of an actOnCbResult call looked at on its own, and those of
\* logExec: the calls of the patched function leave them alone (the rules of
\* Descs carry no call_count_interval, so that logExec skips every one of them),
\* and the fuzzer, which no call of the patched function writes.
aggVars == <<aggList, outcome, callCount, logged, fuzzer>>

\* ------------------------------------------------------------------ Budget
\* ./budget is not among the sources: a budget is modelled from its contract.

\* A Budget with the remaining time r.
\* counting: a startCount has not been matched by a stopCount yet; overstopped:
\* stopCount has been called with no startCount left to match.
NewBudget(r) ==
  [remain |-> r, started |-> FALSE, counting |-> FALSE, overstopped |-> FALSE]

\* Budget.ZERO and Budget.INFINITY, the two shared sentinels.
BudgetZERO == NewBudget(Ms(0))
BudgetINFINITY == NewBudget(Infinity)

\* budget.start(): remember when the bracket began.
BudgetStart(b) == [b EXCEPT !.started = TRUE]

\* budget.stop(ruleName, kind): debit the elapsed time dt, clamping at zero; a
\* no-op without a matching start().
BudgetStop(b, dt) ==
  IF ~b.started THEN b
  ELSE [b EXCEPT !.started = FALSE,
                 !.remain = IF @.inf THEN @ ELSE Ms(Max(0, @.ms - dt))]

\* budget.startCount(kind, other) and budget.stopCount(other) bracket a phase.
BudgetStartCount(b) == [b EXCEPT !.counting = TRUE]
BudgetStopCount(b) ==
  [b EXCEPT !.counting = FALSE, !.overstopped = @ \/ ~b.counting]

\* ------------------------------------------------------------------ Patch

\* new Patch(...): no callbacks, no flags (hasAsyncCBs is not set: undefined).
NewPatch ==
  [preCbs |-> <<>>, failCbs |-> <<>>, postCbs |-> <<>>, asyncPostCbs |-> <<>>,
   hasCbs |-> FALSE, hasAsyncCBs |-> FALSE, hasMostNeededCallbacks |-> FALSE]

\* The number of descriptors of a call site.
NbCbs(p) == Len(p.preCbs) + Len(p.failCbs) + Len(p.postCbs) + Len(p.asyncPostCbs)

\* hasNoBudgetMethod(arr): some descriptor has a method marked noBudget.
hasNoBudgetMethod(arr) == \E i \in 1..Len(arr) : arr[i].hasMethod /\ arr[i].noBudget

\* A field of updateCallback's params: absent, or a list.
Absent == [given |-> FALSE, list |-> <<>>]
Given(l) == [given |-> TRUE, list |-> l]

\* A variant that adds the list of the params to the one the site has.
OrElse_merging(param, old) == IF param.given THEN old \o param.list ELSE old

\* params.x || self.x
OrElse(param, old) == IF param.given THEN param.list ELSE old

\* The params the installer may pass: nothing, or the list of one phase (the
\* fields of the other phases are absent).
NoParams ==
  [preCbs |-> Absent, failCbs |-> Absent, postCbs |-> Absent, asyncPostCbs |-> Absent]
Params ==
  {NoParams}
    \cup {[NoParams EXCEPT !.preCbs = Given(l)] : l \in Lists}
    \cup {[NoParams EXCEPT !.failCbs = Given(l)] : l \in Lists}
    \cup {[NoParams EXCEPT !.postCbs = Given(l)] : l \in Lists}

\* updateCallback(params): the lists, then the three derived flags.
updateCallback(p, params) ==
  LET pre == OrElse(params.preCbs, p.preCbs)
      fail == OrElse(params.failCbs, p.failCbs)
      post == OrElse(params.postCbs, p.postCbs)
      async == OrElse(params.asyncPostCbs, p.asyncPostCbs)
      hasAsync == Len(async) > 0
  IN  [preCbs |-> pre, failCbs |-> fail, postCbs |-> post, asyncPostCbs |-> async,
       hasAsyncCBs |-> hasAsync,
       hasCbs |-> Len(pre) > 0 \/ Len(fail) > 0 \/ Len(post) > 0 \/ hasAsync,
       hasMostNeededCallbacks |->
         hasNoBudgetMethod(pre) \/ hasNoBudgetMethod(fail)
           \/ hasNoBudgetMethod(post) \/ hasNoBudgetMethod(async)]

\* removeAllCallbacks(), for this patch: hasCbs and the four lists.
removeAllCallbacks(p) ==
  [p EXCEPT !.hasCbs = FALSE, !.preCbs = <<>>, !.failCbs = <<>>, !.postCbs = <<>>,
            !.asyncPostCbs = <<>>]

\* The list of a phase: what runPre, runFail, runPost and runAsyncPost pass on.
ListOf(p, kind) ==
  CASE kind = "pre" -> p.preCbs
    [] kind = "fail" -> p.failCbs
    [] kind = "post" -> p.postCbs
    [] OTHER -> p.asyncPostCbs

\* The list of a phase with rule.enabled of its i-th descriptor set to v.
SetEnabled(p, kind, i, v) ==
  CASE kind = "pre" -> [p EXCEPT !.preCbs[i].rule.enabled = v]
    [] kind = "fail" -> [p EXCEPT !.failCbs[i].rule.enabled = v]
    [] kind = "post" -> [p EXCEPT !.postCbs[i].rule.enabled = v]
    [] OTHER -> [p EXCEPT !.asyncPostCbs[i].rule.enabled = v]

\* ------------------------------------------------------------------ sessions

\* session.req: absent, or a request with __sqreen_uuid set or not, a Record in
\* Record.STORE or not, _sqreen_ip_whitelist and __sqreen_replayed.
NoReq ==
  [present |-> FALSE, uuid |-> FALSE, stored |-> FALSE, whitelist |-> FALSE,
   replayed |-> FALSE]

\* The session a patched function builds when the context was lost: no request,
\* no response, nothing subscribed, and Budget.ZERO for both budgets.
LostSession == [lost |-> TRUE, req |-> NoReq, res |-> FALSE, onRaise |-> 0]

\* The session of a result that carries none of its own (originalSession).
NoSession == [given |-> FALSE, s |-> LostSession]

\* A variant for an agent without the fuzzer: no request counts as replayed.
isRequestReplayed_never(req) == FALSE

\* Fuzz.hasFuzzer() && Fuzz.fuzzer.isRequestReplayed(req): a request is marked
\* replayed by the fuzzer alone, so the mark implies the fuzzer.
isRequestReplayed(req) == req.present /\ req.replayed

\* ------------------------------------------------------------------ Fuzzer
\* ./request (FuzzerRequest) is not among the sources: isValid() and finalize()
\* are inputs of the operations below.

\* The most requests the fuzzer is handed, and the most calls of finalizeRequest
\* for one request.
MaxReqs == 2
MaxFinalize == 2

\* A request the fuzzer has not seen: no __sqreen_replayed mark, no
\* __sqreen_fuzzerrequest. accepted and finalized are history: initRequest has
\* returned true for it; how many times finalizeRequest has been called for it
\* since.
NewFuzzReq ==
  [present |-> TRUE, replayed |-> FALSE, fuzzerrequest |-> FALSE, accepted |-> FALSE,
   finalized |-> 0]

\* No call of the fuzzer yet.
NoFuzzCall == [op |-> "none", r |-> 0, ret |-> FALSE]

\* new Fuzzer(runtime, run), with the requests it will be handed; run tells
\* where mutateInputRequests is, emitted how many times 'all_requests_done' was
\* emitted, and last what the last call was and returned.
NewFuzzer ==
  [fuzzedreqs |-> 0, mutationsdone |-> FALSE, handledreqs |-> 0, run |-> "idle",
   emitted |-> 0, reqs |-> [r \in 1..MaxReqs |-> NewFuzzReq], last |-> NoFuzzCall]

\* What fuzzerrequest.finalize(mutated) returns: nothing, or a result.
FinalizeResults ==
  {[ok |-> FALSE, success |-> FALSE, unique |-> FALSE]}
    \cup {[ok |-> TRUE, success |-> s, unique |-> u] : s \in BOOLEAN, u \in BOOLEAN}

\* req is there (0 stands for no request) and carries the mark.
FuzzReplayed(F, r) == r # 0 /\ isRequestReplayed(F.reqs[r])

\* Fuzzer.getFuzzerRequest(req) !== null
HasFuzzerRequest(F, r) == r # 0 /\ F.reqs[r].fuzzerrequest

\* initRequest(req, orig, mutated); valid is what fuzzerrequest.isValid() says.
initRequest(F, r, valid) ==
  IF r = 0 \/ FuzzReplayed(F, r)
  THEN [F EXCEPT !.last = [op |-> "init", r |-> r, ret |-> FALSE]]
  ELSE LET F1 == [F EXCEPT !.reqs[r].replayed = TRUE]
       IN  IF ~valid
           THEN [F1 EXCEPT !.last = [op |-> "init", r |-> r, ret |-> FALSE]]
           ELSE [F1 EXCEPT !.reqs[r].fuzzerrequest = TRUE,
                           !.reqs[r].accepted = TRUE,
                           !.reqs[r].finalized = 0,
                           !.handledreqs = @ + 1,
                           !.last = [op |-> "init", r |-> r, ret |-> TRUE]]

\* _onDone(): 'all_requests_done' is emitted.
onDone(F) == [F EXCEPT !.emitted = @ + 1]

\* finalizeRequest(req, orig, mutated); ret is what fuzzerrequest.finalize()
\* returns. _onRequestDone counts the request as fuzzed.
finalizeRequest(F, r, ret) ==
  IF ~FuzzReplayed(F, r) \/ ~HasFuzzerRequest(F, r)
  THEN [F EXCEPT !.last = [op |-> "finalize", r |-> r, ret |-> FALSE]]
  ELSE LET F0 == [F EXCEPT !.reqs[r].finalized = @ + 1]
       IN  IF ~ret.ok
           THEN [F0 EXCEPT !.last = [op |-> "finalize", r |-> r, ret |-> FALSE]]
           ELSE LET F1 == [F0 EXCEPT !.handledreqs = @ - 1,
                                     !.fuzzedreqs = @ + 1,
                                     !.last = [op |-> "finalize", r |-> r,
                                               ret |-> ret.success]]
                IN  IF F1.mutationsdone /\ F1.handledreqs <= 0 THEN onDone(F1) ELSE F1

\* mutateInputRequests(requests, cbk, options): the promise executor, and done().
mutationsBegin(F) ==
  [F EXCEPT !.mutationsdone = FALSE, !.run = "running", !.last = NoFuzzCall]

mutationsEnd(F) ==
  [F EXCEPT !.mutationsdone = TRUE, !.run = "done", !.last = NoFuzzCall]

\* ------------------------------------------------------------------ results

\* {}: what runUniqueCb and runCbs return for a rule that did not run.
EmptyResult ==
  [full |-> FALSE, status |-> "none", newReturnValue |-> "undefined",
   record |-> FALSE, observations |-> FALSE, data_points |-> FALSE,
   payload |-> FALSE, rule |-> NoRule, originalSession |-> NoSession]

\* What runUniqueCb returns for a body that returned r: r with the rule attached
\* (session and params are attached too: the session is that of the request).
Attach(r, rule) == [r EXCEPT !.full = TRUE, !.rule = rule]

\* An action of actOnCbResult: null, or a result.
Null == [isNull |-> TRUE, r |-> EmptyResult]
Some(r) == [isNull |-> FALSE, r |-> r]

\* ------------------------------------------------------------------ telemetry

\* Nothing handed to the Record of the request, and nothing to the global sinks.
\* The log of the sinks tells in which order actOnCbResult did what: the routing
\* of the telemetry of a result, the call of the subscribed 'raise' callbacks,
\* the drop of the request, the synthetic http_code observation.
NewRecord ==
  [attacks |-> <<>>, observations |-> <<>>, dataPoints |-> <<>>,
   exceptions |-> <<>>, reportPayload |-> FALSE]
NewSink ==
  [attacks |-> <<>>, observations |-> <<>>, dataPoints |-> <<>>,
   exceptions |-> <<>>, fuzz |-> <<>>, raised |-> 0, dropped |-> 0, log |-> <<>>]
Event(ev, name) == [ev |-> ev, rule |-> name]

\* cbResult.originalSession || cbResult.session: runUniqueCb sets result.session
\* to the session of the call.
SessionOf(result, session) ==
  IF result.originalSession.given THEN result.originalSession.s ELSE session

\* A variant of getRecord that takes a request without an id for a traced one.
getRecord_untraced(result, session) ==
  LET req == SessionOf(result, session).req
  IN  req.present /\ ~req.uuid /\ req.stored

\* getRecord(cbResult): whether the request of the result has an id and a Record
\* in Record.STORE (FALSE stands for null).
getRecord(result, session) ==
  LET req == SessionOf(result, session).req
  IN  req.present /\ req.uuid /\ req.stored

\* report(cbResult, err, record): the attack goes to the Record, or is built and
\* reported globally; a replayed request counts it in the fuzzer's metrics first.
report(result, session, hasRecord, T) ==
  LET atk == [rule_name |-> result.rule.name, test |-> result.rule.test,
              block |-> result.rule.block]
      T1 == IF isRequestReplayed(SessionOf(result, session).req)
            THEN [T EXCEPT !.sink.fuzz = Append(@, "exceptions.attacks")]
            ELSE T
  IN  IF hasRecord
      THEN [T1 EXCEPT !.record.attacks = Append(@, atk)]
      ELSE [T1 EXCEPT !.sink.attacks = Append(@, atk)]

\* The observations handed on: those of a rule's result (cbResult.observations),
\* and the synthetic [HTTP_CODE, 500, 1] of a request dropped before tracing.
RuleObs(name) == [key |-> "rule", rule |-> name]
HttpCodeObs == [key |-> "http_code", rule |-> 0]

\* A variant of observe that hands the observations to the global metrics even
\* when the request has a Record.
observe_both(result, hasRecord, T) ==
  LET T1 == [T EXCEPT !.sink.observations = Append(@, RuleObs(result.rule.name))]
  IN  IF hasRecord
      THEN [T1 EXCEPT !.record.observations = Append(@, RuleObs(result.rule.name))]
      ELSE T1

\* observe(cbResult, date, record)
observe(result, hasRecord, T) ==
  IF hasRecord
  THEN [T EXCEPT !.record.observations = Append(@, RuleObs(result.rule.name))]
  ELSE [T EXCEPT !.sink.observations = Append(@, RuleObs(result.rule.name))]

\* writeDataPoints(cbResult, rule, date, record)
writeDataPoints(result, hasRecord, T) ==
  IF hasRecord
  THEN [T EXCEPT !.record.dataPoints = Append(@, result.rule.name)]
  ELSE [T EXCEPT !.sink.dataPoints = Append(@, result.rule.name)]

\* One iteration of performRecordAndObservation's loop.
RouteResult(result, session, T) ==
  LET hasRecord == getRecord(result, session)
      T1 == IF result.record THEN report(result, session, hasRecord, T) ELSE T
      T2 == IF result.observations THEN observe(result, hasRecord, T1) ELSE T1
      T3 == IF result.data_points THEN writeDataPoints(result, hasRecord, T2) ELSE T2
      T4 == IF result.record \/ result.observations \/ result.data_points
            THEN [T3 EXCEPT !.sink.log = Append(@, Event("route", result.rule.name))]
            ELSE T3
  IN  IF result.payload /\ hasRecord THEN [T4 EXCEPT !.record.reportPayload = TRUE]
      ELSE T4

\* A result that has something to route, so that routing it calls a collaborator.
Routed(result) == result.record \/ result.observations \/ result.data_points

\* performRecordAndObservation(resultList): the results in order; a fault of a
\* collaborator while the k-th is routed (faultAt = k; 0: none) is caught and
\* reported, and ends the loop.
RECURSIVE RouteFrom(_, _, _, _, _)
RouteFrom(i, resultList, session, faultAt, T) ==
  IF i > Len(resultList) THEN T
  ELSE IF i = faultAt /\ Routed(resultList[i])
       THEN [T EXCEPT !.sink.exceptions = Append(@, "routing")]
  ELSE RouteFrom(i + 1, resultList, session, faultAt,
                 RouteResult(resultList[i], session, T))

performRecordAndObservation(resultList, session, faultAt, T) ==
  RouteFrom(1, resultList, session, faultAt, T)

\* ------------------------------------------------------------------ actOnCbResult

\* InstrumentationUtils.getListSession(resultList) || session: the session of the
\* first result that carries one of its own takes precedence (./utils is not
\* among the sources).
RECURSIVE getListSession(_, _, _)
getListSession(i, resultList, session) ==
  IF i > Len(resultList) THEN session
  ELSE IF resultList[i].originalSession.given THEN resultList[i].originalSession.s
  ELSE getListSession(i + 1, resultList, session)

\* A variant of the gate that lets every rule through.
PassesDryRunGate_always(rule, blockAllRules) == TRUE

\* !rule.test || Config.block_all_rules
PassesDryRunGate(rule, blockAllRules) == ~rule.test \/ blockAllRules

\* The index of the result the scan of actOnCbResult stops at: the first one, in
\* list order from i, with a status that passes the dry-run gate and is RAISE or
\* SKIP; 0 when the scan reaches the end of the list.
RECURSIVE ScanFrom(_, _, _)
ScanFrom(i, resultList, blockAllRules) ==
  IF i > Len(resultList) THEN 0
  ELSE IF /\ resultList[i].status # "none"
          /\ PassesDryRunGate(resultList[i].rule, blockAllRules)
          /\ resultList[i].status \in {"RAISE", "SKIP"}
       THEN i
  ELSE ScanFrom(i + 1, resultList, blockAllRules)

\* A variant of the scan that keeps the last actionable result, not the first.
RECURSIVE ScanBack(_, _, _)
ScanBack(i, resultList, blockAllRules) ==
  IF i < 1 THEN 0
  ELSE IF /\ resultList[i].status # "none"
          /\ PassesDryRunGate(resultList[i].rule, blockAllRules)
          /\ resultList[i].status \in {"RAISE", "SKIP"}
       THEN i
  ELSE ScanBack(i - 1, resultList, blockAllRules)
Selected_last(resultList, blockAllRules) ==
  ScanBack(Len(resultList), resultList, blockAllRules)

\* for (let i = 0; i < resultList.length; ++i): the result the loop returns on.
Selected(resultList, blockAllRules) == ScanFrom(1, resultList, blockAllRules)

\* What the collaborators of one actOnCbResult call do: faultAt, the result whose
\* routing faults (0: none); raiseFault, a subscribed 'raise' callback throws;
\* dropFault, RuleUtil.dropRequest throws; httpMetric, the http_code metric exists.
Envs ==
  [faultAt : 0..MaxCbs, raiseFault : BOOLEAN, dropFault : BOOLEAN, httpMetric : BOOLEAN]

\* No actOnCbResult call has been looked at on its own.
NoOutcome ==
  [called |-> FALSE, action |-> Null,
   env |-> [faultAt |-> 0, raiseFault |-> FALSE, dropFault |-> FALSE,
            httpMetric |-> TRUE]]

\* An environment in which no collaborator faults.
Calm(env) == env.faultAt = 0 /\ ~env.raiseFault /\ ~env.dropFault

\* A variant that asks for the request only.
HasHandles_requestOnly(session) == session.req.present

\* session.req && session.res: there is a request to drop and a response to
\* end it with.
HasHandles(session) == session.req.present /\ session.res

\* preAction && preAction.status === CB_STATUS.SKIP: the action makes the
\* patched function return at once.
IsSkip(action) == ~action.isNull /\ action.r.status = "SKIP"

\* A variant of the RAISE branch in which a fault of the drop of the request is
\* neither reported nor turned into "no action".
Raise_dropFaultUnnoticed(result, session, env, T) ==
  LET T1 == [T EXCEPT !.sink.raised = @ + session.onRaise]
  IN  IF session.onRaise > 0 /\ env.raiseFault
      THEN [action |-> Null,
            T |-> [T1 EXCEPT !.sink.exceptions = Append(@, "aggregation")]]
      ELSE [action |-> Some([result EXCEPT !.status = "SKIP"]), T |-> T1]

\* The RAISE branch: the subscribed callbacks, the drop of the request, the
\* synthetic http_code observation of a request that was never traced, and the
\* result as a SKIP. A fault is caught by actOnCbResult: reported, no action.
Raise(result, session, env, T) ==
  LET T1 == [T EXCEPT !.sink.raised = @ + session.onRaise,
                      !.sink.log = IF session.onRaise > 0
                                   THEN Append(@, Event("raise", result.rule.name))
                                   ELSE @]
      Caught(TT) == [action |-> Null,
                     T |-> [TT EXCEPT !.sink.exceptions = Append(@, "aggregation")]]
  IN  IF session.onRaise > 0 /\ env.raiseFault THEN Caught(T1)
      ELSE IF ~HasHandles(session)
      THEN [action |-> Some([result EXCEPT !.status = "SKIP"]), T |-> T1]
      ELSE IF env.dropFault THEN Caught(T1)
      ELSE LET T2 == [T1 EXCEPT !.sink.dropped = @ + 1,
                                !.sink.log = Append(@, Event("drop", result.rule.name))]
               T3 == IF ~session.req.uuid /\ env.httpMetric
                     THEN [T2 EXCEPT !.sink.observations = Append(@, HttpCodeObs),
                                     !.sink.log = Append(@, Event("http_code", 0))]
                     ELSE T2
           IN  [action |-> Some([result EXCEPT !.status = "SKIP"]), T |-> T3]

\* A variant of actOnCbResult that looks for the action first and routes the
\* telemetry of the list afterwards.
actOnCbResult_actionFirst(resultList, session, blockAllRules, env, T) ==
  IF Len(resultList) = 0 THEN [action |-> Null, T |-> T]
  ELSE
    LET eff == getListSession(1, resultList, session)
        k == Selected(resultList, blockAllRules)
        a == IF k = 0 THEN [action |-> Null, T |-> T]
             ELSE IF resultList[k].status = "RAISE" THEN Raise(resultList[k], eff, env, T)
             ELSE [action |-> Some(resultList[k]), T |-> T]
    IN  [action |-> a.action,
         T |-> performRecordAndObservation(resultList, session, env.faultAt, a.T)]

\* actOnCbResult(resultList, session): the action, and what the Record and the
\* sinks have been handed.
actOnCbResult(resultList, session, blockAllRules, env, T) ==
  IF Len(resultList) = 0 THEN [action |-> Null, T |-> T]
  ELSE
    LET eff == getListSession(1, resultList, session)
        T1 == performRecordAndObservation(resultList, session, env.faultAt, T)
        k == Selected(resultList, blockAllRules)
    IN  IF k = 0 THEN [action |-> Null, T |-> T1]
        ELSE IF resultList[k].status = "RAISE" THEN Raise(resultList[k], eff, env, T1)
        ELSE [action |-> Some(resultList[k]), T |-> T1]

\* ------------------------------------------------------------------ runUniqueCb

\* currentBudget of runUniqueCb, by name: monitBudget for a monitoring rule and
\* budget for any other, as runCbs passes them (Budget.INFINITY once a reveal rule
\* of the list has been met); Budget.INFINITY when the budget was not passed,
\* which is the case of monitBudget in runAsyncPost.
currentBudget(rule, kind, infB, infM) ==
  IF rule.purpose = "monitoring"
  THEN (IF infM \/ kind = "asyncPost" THEN "INFINITY" ELSE "monitBudget")
  ELSE (IF infB THEN "INFINITY" ELSE "budget")

\* A variant that takes what the budget has left for every descriptor.
EffectiveRemain_ofBudget(noBudget, b) == b.remain

\* remain = noBudget === true ? Infinity : currentBudget.remain
EffectiveRemain(noBudget, b) == IF noBudget THEN Infinity ELSE b.remain

\* A variant that lets a budget of exactly zero through.
OutOfBudget_onlyBelowZero(remain, noBudget) ==
  ~remain.inf /\ remain.ms < 0 /\ ~noBudget

\* remain <= 0 && noBudget === false
OutOfBudget(remain, noBudget) == LeZero(remain) /\ ~noBudget

\* A variant of runUniqueCb's decision that does not look at rule.enabled.
Decide_ignoringEnabled(d, b, pre) ==
  IF OutOfBudget(EffectiveRemain(d.noBudget, b), d.noBudget) THEN "nobudget"
  ELSE IF pre = "fail" THEN "precond"
  ELSE IF pre = "throw" THEN "throw"
  ELSE "run"

\* What runUniqueCb does with a descriptor before the body: return {} for a
\* disabled rule, for an exhausted budget, for preconditions that are not met;
\* let a fault of the precondition filter through (it is outside tryThis); or
\* run the body. pre is what PreConditions.fillsPreConditions does.
Decide(d, b, pre) ==
  IF ~d.rule.enabled THEN "disabled"
  ELSE IF OutOfBudget(EffectiveRemain(d.noBudget, b), d.noBudget) THEN "nobudget"
  ELSE IF pre = "fail" THEN "precond"
  ELSE IF pre = "throw" THEN "throw"
  ELSE "run"

\* What is known of one iteration of runCbs's loop: the descriptor as it was
\* read, what became of it (how: "nomethod" and "replayed" are runCbs's own
\* skips, the others are runUniqueCb's), the budget runUniqueCb resolved (eff:
\* "none" when it was not called) and what that budget had left, whether the
\* precondition filter was reached and passed (pre), whether the body was
\* invoked and with which timeout, whether it threw, the calls of start(), of
\* stop() and of exception_cap.tick(failed) with what tick returned, and the
\* result of the iteration; routed tells where the fault of the body went.
Entry(d, how, eff, b) ==
  [desc |-> d, how |-> how, eff |-> eff, remain |-> b.remain,
   pre |-> IF how \in {"run", "precond"} THEN how ELSE "unreached",
   timeout |-> EffectiveRemain(d.noBudget, b), ran |-> FALSE, threw |-> FALSE,
   starts |-> 0, stops |-> 0, ticks |-> <<>>, result |-> EmptyResult,
   routed |-> "none"]

\* Where the fail handler of runUniqueCb sends the fault of a body: to the
\* fuzzer's metric for a replayed request, to the Record of a request that has
\* an id and a Record in the store, to the Exception Reporter otherwise.
FaultDestination(req) ==
  IF isRequestReplayed(req) THEN "fuzz"
  ELSE IF req.present /\ req.uuid /\ req.stored THEN "record"
  ELSE "reporter"

\* ------------------------------------------------------------------ runCbs

\* A variant without the early return on the lock.
runCbsGate_withoutLock(session, lk) ==
  IF session.req.present /\ session.req.whitelist THEN "whitelist" ELSE "run"

\* The two early returns of runCbs: a whitelisted request, then the lock.
runCbsGate(session, lk) ==
  IF session.req.present /\ session.req.whitelist THEN "whitelist"
  ELSE IF lk THEN "lock"
  ELSE "run"

\* A variant that never places the lock.
LockWhileRuleRuns_never == FALSE

\* process.__sqreen_cb = true, around the call of runUniqueCb.
LockWhileRuleRuns == TRUE

\* A variant that leaves the loop at the first rule that returns a status.
NextIndex_stopAtStatus(i, n, result) ==
  IF result.status # "none" THEN n + 1 ELSE i + 1

\* ++i of runCbs's loop: n is the length of the list, result the i-th result.
NextIndex(i, n, result) == i + 1

\* A call of the patched function that has reached a phase: its list is being
\* run (pc "loop": the i-th descriptor is next; "body": the body of the i-th is
\* running) or has been run (pc "act": actOnCbResult is next). gate tells how
\* runCbs was entered ("none": the list is empty and runCbs is not called) and
\* entryLock what the lock was then; value is the result or the fault of the
\* original function in the phases that follow it; log lists what the call has
\* begun so far, in order: its phases, and "orig" for the original function.
Phase(kind, value, thrown, p, session, lk) ==
  LET gate == IF Len(ListOf(p, kind)) = 0 THEN "none" ELSE runCbsGate(session, lk)
  IN  [pc |-> IF gate = "run" THEN "loop" ELSE "act", kind |-> kind, i |-> 1,
       gate |-> gate, entryLock |-> lk, trace |-> <<>>, infB |-> FALSE,
       infM |-> FALSE, value |-> value, thrown |-> thrown, log |-> <<kind>>]

\* The results of a frame: one per iteration of the loop.
Results(f) == [j \in 1..Len(f.trace) |-> f.trace[j].result]

\* The frame after the i-th iteration, whose entry is e: the next iteration, or
\* the end of the loop.
Advance(f, e, n) ==
  LET j == NextIndex(f.i, n, e.result)
      tr == IF Len(f.trace) >= f.i THEN [f.trace EXCEPT ![f.i] = e]
            ELSE Append(f.trace, e)
  IN  [f EXCEPT !.trace = tr, !.i = j, !.pc = IF j > n THEN "act" ELSE "loop"]

\* ------------------------------------------------------------------ logExec

\* The largest call_count_interval of a rule, and the most dispatches of one
\* key that are followed.
MaxInterval == 2
MaxDispatches == 4

\* The rules logExec is given: rule n has call_count_interval n, rule 0 has
\* none; all are of one rules pack. The key of a rule in a phase is
\* `${rule.rulesPack}/${rule.name}/${kind}`.
LogRules == 0..MaxInterval
LogKinds == {"pre", "post"}
LogKeys == [name : 1..MaxInterval, kind : LogKinds]
call_count_interval(name) == name

\* A property of callCount: undefined, or a number.
Undefined == [def |-> FALSE, n |-> 0]
Num(n) == [def |-> TRUE, n |-> n]

\* callCount = {}
NoCounts == [key \in LogKeys |-> Undefined]

\* countCB(): !!Feature.read().call_counts_metrics_period (on); for each key,
\* how many times logExec met it (seen) and at which of those times it handed
\* ['sqreen_call_counts', key, interval] to Metrics.addObservations (emitted).
Logging(on) ==
  [on |-> on, seen |-> [key \in LogKeys |-> 0], emitted |-> [key \in LogKeys |-> {}]]
NotLogging == Logging(FALSE)

\* callCount[key] >= interval - 1: false for undefined.
AtInterval(c, interval) == c.def /\ c.n >= interval - 1

\* callCount[key] + 1 || 1
Incremented(c) == IF c.def /\ c.n + 1 # 0 THEN Num(c.n + 1) ELSE Num(1)

\* The loop of logExec from the i-th rule of cbList (names of rules) on.
RECURSIVE logFrom(_, _, _, _)
logFrom(i, cbList, kind, S) ==
  IF i > Len(cbList) THEN S
  ELSE
    LET interval == call_count_interval(cbList[i])
        key == [name |-> cbList[i], kind |-> kind]
    IN  IF interval = 0 THEN logFrom(i + 1, cbList, kind, S)
        ELSE
          LET at == S.logged.seen[key] + 1
              L == [S.logged EXCEPT !.seen[key] = at]
          IN  logFrom(i + 1, cbList, kind,
                IF AtInterval(S.callCount[key], interval)
                THEN [callCount |-> [S.callCount EXCEPT ![key] = Num(0)],
                      logged |-> [L EXCEPT !.emitted[key] = @ \cup {at}]]
                ELSE [callCount |-> [S.callCount EXCEPT ![key] = Incremented(@)],
                      logged |-> L])

\* logExec(cbList, kind)
logExec(cbList, kind, S) == IF ~S.logged.on THEN S ELSE logFrom(1, cbList, kind, S)

\* How many times a rule is in a list.
TimesIn(cbList, name) == Cardinality({i \in 1..Len(cbList) : cbList[i] = name})

\* ------------------------------------------------------------------ inputs

\* The most calls of the patched function in progress at once: a call, and the
\* calls the bodies of its rules make.
MaxDepth == 2

\* The sessions of the calls: the context lost; a traced request with a Record
\* and a subscriber to 'raise'; a whitelisted request; a request the fuzzer
\* replays.
Traced == [present |-> TRUE, uuid |-> TRUE, stored |-> TRUE, whitelist |-> FALSE,
           replayed |-> FALSE]
Sessions ==
  { LostSession,
    [lost |-> FALSE, req |-> Traced, res |-> TRUE, onRaise |-> 1],
    [lost |-> FALSE, req |-> [Traced EXCEPT !.whitelist = TRUE], res |-> TRUE,
     onRaise |-> 0],
    [lost |-> FALSE, req |-> [Traced EXCEPT !.replayed = TRUE], res |-> TRUE,
     onRaise |-> 0] }

\* What the body of a rule returns: nothing of note, an override of the call
\* (SKIP), or a block of the request (RAISE).
BodyResults ==
  { [EmptyResult EXCEPT !.status = st,
                        !.newReturnValue = IF st = "none" THEN "undefined" ELSE "X"] :
      st \in {"none", "SKIP", "RAISE"} }

\* What the collaborators of actOnCbResult do in the calls of the patched
\* function: the bodies above return nothing to route, so no routing can fault.
CallEnvs == {env \in Envs : env.faultAt = 0 /\ env.httpMetric}

\* ------------------------------------------------------------------ actions

Top == stack[Len(stack)]
Rest == SubSeq(stack, 1, Len(stack) - 1)
SetTop(f) == [stack EXCEPT ![Len(stack)] = f]

\* The budget object a name stands for.
BudgetOf(name) ==
  CASE name = "budget" -> budget
    [] name = "monitBudget" -> monitBudget
    [] OTHER -> BudgetINFINITY

\* The budget object behind a name becomes b. When the context was lost both
\* names stand for the one object Budget.ZERO; Budget.INFINITY never decreases.
SetBudget(name, b) ==
  IF name = "INFINITY" THEN UNCHANGED <<budget, monitBudget>>
  ELSE IF sess.lost THEN budget' = b /\ monitBudget' = b
  ELSE IF name = "budget" THEN budget' = b /\ UNCHANGED monitBudget
  ELSE monitBudget' = b /\ UNCHANGED budget

\* Some descriptor of the call site is marked noBudget.
SiteMandatory(p) ==
  \E l \in {p.preCbs, p.failCbs, p.postCbs, p.asyncPostCbs} :
    \E i \in 1..Len(l) : l[i].hasMethod /\ l[i].noBudget

\* The values that flow through a call: where a value comes from (src: the
\* original function, or the action of a phase) and what it is (the value
\* the original returned, the fault it threw, the newReturnValue of a rule,
\* or the fault of the pipeline itself).
Val(src, v) == [src |-> src, v |-> v]
NoValue == Val("none", "none")
OrigValue == Val("orig", "value")
OrigFault == Val("orig", "err")
PipelineFault == Val("pipeline", "TypeError")

\* No call of the patched function yet in this request.
\* The asynchronous side of a call: whether the last argument was a function
\* (cb: the wrapper of the callback stands in for it) and how many times it has
\* been called; the promise the original function returned (none, pending,
\* resolved, rejected); the promise the caller got, callResult.then(..).catch(..)
\* (resolved with the value, rejected with the rejection, or "faulted": rejected
\* with a fault of the pipeline); whether the catch continuation is due
\* because the then continuation faulted (react); and what the continuations
\* that ended without a fault passed on, in order (seen): the arguments given to
\* the caller's callback, the value or the rejection of the caller's promise.
NoAsync ==
  [cb |-> FALSE, calls |-> 0, promise |-> "none", derived |-> "none",
   react |-> "none", seen |-> <<>>]

NoCall ==
  [path |-> "none", out |-> "none", by |-> "none", mandatory |-> FALSE,
   ret |-> NoValue, log |-> <<>>, async |-> NoAsync]

\* How a call of the patched function ended, for the outermost call: the path
\* it took, how it ended (out, by), what the caller got (ret: a value, or a
\* fault when out is "rethrow" or "fault") and what the call began, in order.
Ended(path, out, by, ret, log) ==
  [path |-> path, out |-> out, by |-> by, mandatory |-> SiteMandatory(patch),
   ret |-> ret, log |-> log, async |-> done.async]

\* The most times the original function calls the callback it was given.
MaxCalls == 1

\* A variant in which a SKIP action of the asyncPost list replaces what the
\* continuation passes on.
PassedOn_actionReplaces(f, events) ==
  IF \E k \in 1..Len(events) : events[k] = "SKIP" THEN Val("asyncPost", "X")
  ELSE IF f.value.v = "TypeError" THEN PipelineFault
  ELSE Val("orig", f.value.v)

\* What a continuation passes on once the asyncPost list has been run, "no action
\* possible": lastArg.apply(this, arguments), return arg, Promise.reject(err),
\* with what it was given (the catch continuation after a fault of the then
\* continuation was given that fault).
PassedOn(f, events) ==
  IF f.value.v = "TypeError" THEN PipelineFault ELSE Val("orig", f.value.v)

\* A variant in which the catch continuation resolves the caller's promise.
AsyncEnds_catchResolves(f, faulted, events) ==
  LET d0 == IF Len(stack) = 1 THEN [done EXCEPT !.log = @ \o events] ELSE done
      d == IF faulted THEN d0
           ELSE [d0 EXCEPT !.async.seen = Append(@, PassedOn(f, events))]
  IN  CASE f.value.src = "then" ->
             IF faulted THEN [d EXCEPT !.async.react = "catch"]
             ELSE [d EXCEPT !.async.derived = "resolved"]
        [] f.value.src = "catch" -> [d EXCEPT !.async.derived = "resolved"]
        [] OTHER -> d

\* A continuation of the asynchronous side (the wrapper of the callback, or the
\* then or the catch continuation of the promise: f.value.src) is over, by a
\* fault of the pipeline or not; what it has done goes to the log of the call.
\*   then:  return arg, the caller's promise resolves; a fault rejects the
\*          promise of then(..), and the catch continuation is due;
\*   catch: return Promise.reject(err); a fault rejects as well, with the fault;
\*   the wrapper: lastArg.apply(..), or the fault goes to whoever called it.
AsyncEnds(f, faulted, events) ==
  LET d0 == IF Len(stack) = 1 THEN [done EXCEPT !.log = @ \o events] ELSE done
      d == IF faulted THEN d0
           ELSE [d0 EXCEPT !.async.seen = Append(@, PassedOn(f, events))]
  IN  CASE f.value.src = "then" ->
             IF faulted THEN [d EXCEPT !.async.react = "catch"]
             ELSE [d EXCEPT !.async.derived = "resolved"]
        [] f.value.src = "catch" ->
             [d EXCEPT !.async.derived = IF faulted \/ f.value.v # "err"
                                         THEN "faulted" ELSE "rejected"]
        [] OTHER -> d

\* The frames left when a continuation is over: the log of the call it was
\* called from has what the continuation did.
AsyncRest(events) ==
  IF Len(stack) = 1 THEN Rest
  ELSE [Rest EXCEPT ![Len(stack) - 1].log = @ \o events]

\* The innermost call ends: it returns ret, or a fault leaves it.
Finish(out, by, ret) ==
  IF Top.kind = "asyncPost"
  THEN /\ stack' = AsyncRest(<<"faulted">>)
       /\ done' = AsyncEnds(Top, TRUE, <<"faulted">>)
  ELSE /\ stack' = Rest
       /\ done' = IF Len(stack) = 1 THEN Ended("slow", out, by, ret, Top.log)
                  ELSE done

\* A variant of the fast path that does not look for mandatory callbacks.
FastPath_ignoringMandatory(b, m, lk, p) ==
  \/ LeZero(b.remain) /\ LeZero(m.remain)
  \/ lk
  \/ ~p.hasCbs

\* The condition of the fast path of the patched function.
FastPath(b, m, lk, p) ==
  /\ \/ LeZero(b.remain) /\ LeZero(m.remain)
     \/ lk
     \/ ~p.hasCbs
  /\ p.hasMostNeededCallbacks = FALSE

\* The patched function, from its entry to the first rule of the pre list (or to
\* the end of that list when runCbs returns at once): the fast path calls the
\* original function and is done (o: it returns or throws).
Enter(s, b, m, o) ==
  /\ IF FastPath(b, m, lock, patch)
     THEN /\ budget' = b
          /\ monitBudget' = m
          /\ stack' = stack
          /\ done' = IF stack = <<>>
                     THEN Ended("fast", o, "none",
                                IF o = "value" THEN OrigValue ELSE OrigFault, <<"orig">>)
                     ELSE done
     ELSE /\ budget' = BudgetStartCount(b)
          /\ monitBudget' = BudgetStartCount(m)
          /\ stack' = Append(stack, Phase("pre", NoValue, FALSE, patch, s, lock))
          /\ done' = IF stack = <<>>
                     THEN Ended("slow", "running", "none", NoValue, <<>>)
                     ELSE done
  /\ UNCHANGED <<lock, blockAll, patch>>

\* A request reaches the call site: the patched function is called with the
\* session and the budgets of that request.
Call ==
  /\ UNCHANGED aggVars
  /\ stack = <<>>
  /\ done = NoCall
  /\ \E s \in Sessions, r1 \in 0..MaxRemain, r2 \in 0..MaxRemain,
        o \in {"value", "rethrow"} :
       /\ s.lost => r1 = 0 /\ r2 = 0
       /\ s.req.whitelist \/ s.req.replayed => r1 = MaxRemain /\ r2 = MaxRemain
       /\ sess' = s
       /\ record' = NewRecord
       /\ sink' = NewSink
       /\ Enter(s, IF s.lost THEN BudgetZERO ELSE NewBudget(Ms(r1)),
                IF s.lost THEN BudgetZERO ELSE NewBudget(Ms(r2)), o)

\* The body of a rule calls the patched function: same continuation, so same
\* session and same budgets.
NestedCall ==
  /\ UNCHANGED aggVars
  /\ stack # <<>>
  /\ Top.pc = "body"
  /\ Len(stack) < MaxDepth
  /\ \E o \in {"value", "rethrow"} : Enter(sess, budget, monitBudget, o)
  /\ UNCHANGED <<sess, record, sink>>

\* One iteration of the loop of runCbs, up to the call of the body.
RunRule ==
  /\ UNCHANGED aggVars
  /\ stack # <<>>
  /\ Top.pc = "loop"
  /\ LET f == Top
         n == Len(ListOf(patch, f.kind))
         d == ListOf(patch, f.kind)[f.i]
         isReveal == d.rule.purpose = "reveal"
     IN  IF ~d.hasMethod \/ (isReveal /\ isRequestReplayed(sess.req))
         THEN /\ stack' = SetTop(Advance(f,
                   Entry(d, IF d.hasMethod THEN "replayed" ELSE "nomethod",
                         "none", BudgetINFINITY), n))
              /\ UNCHANGED <<lock, blockAll, patch, sess, budget, monitBudget,
                             record, sink, done>>
         ELSE LET g == IF isReveal THEN [f EXCEPT !.infB = TRUE, !.infM = TRUE] ELSE f
                  eff == currentBudget(d.rule, g.kind, g.infB, g.infM)
                  b == BudgetOf(eff)
              IN  \E pre \in {"pass", "fail", "throw"} :
                    LET what == Decide(d, b, pre)
                        e == Entry(d, what, eff, b)
                    IN  /\ CASE what = "run" ->
                                  /\ lock' = LockWhileRuleRuns
                                  /\ SetBudget(eff, BudgetStart(b))
                                  /\ stack' = SetTop([g EXCEPT !.pc = "body",
                                        !.trace = Append(@, [e EXCEPT !.ran = TRUE,
                                                                      !.starts = 1])])
                                  /\ UNCHANGED done
                             [] what = "throw" ->
                                  /\ lock' = LockWhileRuleRuns
                                  /\ Finish("fault", "precond", PipelineFault)
                                  /\ UNCHANGED <<budget, monitBudget>>
                             [] OTHER ->
                                  /\ lock' = FALSE
                                  /\ stack' = SetTop(Advance(g, e, n))
                                  /\ UNCHANGED <<budget, monitBudget, done>>
                        /\ UNCHANGED <<blockAll, patch, sess, record, sink>>

\* The body of the rule returns r after dt ms: the rest of tryThis's exec, then
\* the release of the lock and the end of the iteration. ret is what
\* exception_cap.tick(false) returns.
BodyReturn ==
  /\ UNCHANGED aggVars
  /\ stack # <<>>
  /\ Top.pc = "body"
  /\ \E r \in BodyResults, dt \in Elapsed, ret \in BOOLEAN :
       LET f == Top
           n == Len(ListOf(patch, f.kind))
           d == ListOf(patch, f.kind)[f.i]
           e == f.trace[f.i]
           rule == [d.rule EXCEPT !.enabled = IF d.rule.cap THEN ret ELSE @]
           res == Attach(r, rule)
           e1 == [e EXCEPT !.stops = @ + 1,
                           !.ticks = IF d.rule.cap
                                     THEN Append(@, [failed |-> FALSE, ret |-> ret])
                                     ELSE @,
                           !.result = IF d.rule.purpose = "reveal" /\ res.data_points
                                      THEN [res EXCEPT !.payload = TRUE] ELSE res]
       IN  /\ d.rule.cap \/ ret
           /\ SetBudget(e.eff, BudgetStop(BudgetOf(e.eff), dt))
           /\ patch' = SetEnabled(patch, f.kind, f.i, rule.enabled)
           /\ lock' = FALSE
           /\ stack' = SetTop(Advance(f, e1, n))
           /\ UNCHANGED <<blockAll, sess, record, sink, done>>

\* The body of the rule throws v after dt ms: tryThis's fail. A thrown null or
\* undefined has no .stack to read: the handler itself faults, and that fault
\* leaves runUniqueCb and runCbs. ret is what exception_cap.tick(true, err)
\* returns.
BodyThrow ==
  /\ UNCHANGED aggVars
  /\ stack # <<>>
  /\ Top.pc = "body"
  /\ \E v \in {"error", "null"}, dt \in Elapsed, ret \in BOOLEAN :
       LET f == Top
           n == Len(ListOf(patch, f.kind))
           d == ListOf(patch, f.kind)[f.i]
           e == f.trace[f.i]
           to == FaultDestination(sess.req)
           e1 == [e EXCEPT !.stops = @ + 1, !.threw = TRUE, !.routed = to,
                           !.ticks = IF d.rule.cap
                                     THEN Append(@, [failed |-> TRUE, ret |-> ret])
                                     ELSE @]
       IN  /\ d.rule.cap \/ ret
           /\ SetBudget(e.eff, BudgetStop(BudgetOf(e.eff), dt))
           /\ IF v = "null"
              THEN /\ Finish("fault", "body", PipelineFault)
                   /\ UNCHANGED <<lock, patch, record, sink>>
              ELSE /\ patch' = SetEnabled(patch, f.kind, f.i,
                                          IF d.rule.cap THEN ret ELSE d.rule.enabled)
                   /\ IF to = "fuzz"
                      THEN /\ sink' = [sink EXCEPT
                                         !.fuzz = Append(@, "exceptions.failed_rules")]
                           /\ UNCHANGED record
                      ELSE IF to = "record"
                      THEN /\ record' = [record EXCEPT
                                           !.exceptions = Append(@, d.rule.name)]
                           /\ UNCHANGED sink
                      ELSE /\ sink' = [sink EXCEPT
                                         !.exceptions = Append(@, d.rule.name)]
                           /\ UNCHANGED record
                   /\ lock' = FALSE
                   /\ stack' = SetTop(Advance(f, e1, n))
                   /\ UNCHANGED done
           /\ UNCHANGED <<blockAll, sess>>

\* What instrumented does once the rules of a phase are aggregated into action:
\* it returns, or goes on to the next phase. After the pre phase the original
\* function is called unless the action overrides (o: it returns or throws);
\* the override of a fail phase becomes the result the post phase is given.
Return(out, value) ==
  [to |-> "return", out |-> out, value |-> value, thrown |-> FALSE, began |-> <<>>]
Begin(kind, value, thrown, began) ==
  [to |-> kind, out |-> "none", value |-> value, thrown |-> thrown, began |-> began]

\* A variant that calls the original function whatever the pre phase decided.
AfterPhase_ignoringPreSkip(kind, value, action, o) ==
  IF kind = "pre" \/ action.isNull
  THEN CASE kind = "pre" ->
              IF o = "enter" THEN Begin("orig", NoValue, FALSE, <<"orig">>)
              ELSE IF o = "value"
              THEN Begin("post", OrigValue, FALSE, <<"orig", "post">>)
              ELSE Begin("fail", OrigFault, TRUE, <<"orig", "fail">>)
         [] kind = "fail" -> Return("rethrow", value)
         [] OTHER -> Return(IF value.src = "orig" THEN "value" ELSE "override", value)
  ELSE IF kind = "fail"
       THEN Begin("post", Val("fail", action.r.newReturnValue), FALSE, <<"post">>)
       ELSE Return("override", Val(kind, action.r.newReturnValue))

\* A variant in which the override of a fail phase is not applied.
AfterPhase_ignoringFailSkip(kind, value, action, o) ==
  IF kind = "fail" THEN Return("rethrow", value)
  ELSE IF ~action.isNull THEN Return("override", Val(kind, action.r.newReturnValue))
  ELSE IF kind = "pre"
       THEN IF o = "enter" THEN Begin("orig", NoValue, FALSE, <<"orig">>)
            ELSE IF o = "value" THEN Begin("post", OrigValue, FALSE, <<"orig", "post">>)
            ELSE Begin("fail", OrigFault, TRUE, <<"orig", "fail">>)
       ELSE Return(IF value.src = "orig" THEN "value" ELSE "override", value)

\* A variant that goes on to the post phase without the original function.
AfterPhase_withoutOriginal(kind, value, action, o) ==
  IF ~action.isNull
  THEN IF kind = "fail"
       THEN Begin("post", Val("fail", action.r.newReturnValue), FALSE, <<"post">>)
       ELSE Return("override", Val(kind, action.r.newReturnValue))
  ELSE CASE kind = "pre" -> Begin("post", OrigValue, FALSE, <<"post">>)
         [] kind = "fail" -> Return("rethrow", value)
         [] OTHER -> Return(IF value.src = "orig" THEN "value" ELSE "override", value)

AfterPhase(kind, value, action, o) ==
  IF ~action.isNull
  THEN IF kind = "fail"
       THEN Begin("post", Val("fail", action.r.newReturnValue), FALSE, <<"post">>)
       ELSE Return("override", Val(kind, action.r.newReturnValue))
  ELSE CASE kind = "pre" ->
              IF o = "enter" THEN Begin("orig", NoValue, FALSE, <<"orig">>)
              ELSE IF o = "value"
              THEN Begin("post", OrigValue, FALSE, <<"orig", "post">>)
              ELSE Begin("fail", OrigFault, TRUE, <<"orig", "fail">>)
         [] kind = "fail" -> Return("rethrow", value)
         [] OTHER -> Return(IF value.src = "orig" THEN "value" ELSE "override", value)

\* The rest of a phase once its list has been run: actOnCbResult and stopCount,
\* then what the patched function does next. After the pre phase the original
\* function is called (o: it returns or throws) and the post or the fail phase
\* begins; an override of the fail phase becomes the result the post phase sees.
\* At a site with asyncPost callbacks the original function is entered (o) and
\* what it does is left to the actions of the asynchronous side.
Act ==
  /\ UNCHANGED aggVars
  /\ stack # <<>>
  /\ Top.pc = "act"
  /\ Top.kind # "asyncPost"
  /\ \E env \in CallEnvs, o \in {"value", "throw", "enter"} :
       LET f == Top
           T0 == [record |-> record, sink |-> sink]
           a == IF f.gate = "none" THEN [action |-> Null, T |-> T0]
                ELSE actOnCbResult(Results(f), sess, blockAll, env, T0)
           \* history: the phase has yielded an action
           acted == IF a.action.isNull THEN f.log ELSE Append(f.log, "SKIP")
           next(kind, value, thrown, began) ==
             /\ stack' = SetTop([Phase(kind, value, thrown, patch, sess, lock)
                                   EXCEPT !.log = acted \o began])
             /\ UNCHANGED <<budget, monitBudget, done>>
           return(out, ret) ==
             /\ stack' = Rest
             /\ done' = IF Len(stack) = 1 THEN Ended("slow", out, "none", ret, acted)
                        ELSE done
             /\ budget' = BudgetStopCount(budget)
             /\ monitBudget' = BudgetStopCount(monitBudget)
           k == IF f.gate = "none" THEN 0 ELSE Selected(Results(f), blockAll)
       IN  \* the collaborators are called for a RAISE only, and the original
           \* function after a pre phase without action only
           /\ (k # 0 /\ Results(f)[k].status = "RAISE") \/ Calm(env)
           /\ IF f.kind = "pre" /\ a.action.isNull
              THEN (o = "enter") <=> (patch.hasAsyncCBs = TRUE)
              ELSE o = "value"
           /\ record' = a.T.record
           /\ sink' = a.T.sink
           /\ LET step == AfterPhase(f.kind, f.value, a.action, o)
              IN  CASE step.to = "return" -> return(step.out, step.value)
                    [] step.to = "orig" ->
                         /\ stack' = SetTop([f EXCEPT !.pc = "orig",
                                                      !.log = acted \o step.began])
                         /\ budget' = BudgetStopCount(budget)
                         /\ monitBudget' = BudgetStopCount(monitBudget)
                         /\ UNCHANGED done
                    [] OTHER -> next(step.to, step.value, step.thrown, step.began)
           /\ UNCHANGED <<lock, blockAll, patch, sess>>

\* ------------------------------------------------------------------ the asynchronous side

\* The frame of a continuation that runs the asyncPost list with value.
AsyncPhase(value, thrown) ==
  [Phase("asyncPost", value, thrown, patch, sess, lock) EXCEPT !.log = <<>>]

\* The original function calls the callback it was given, that is the wrapper
\* of instrumented: while it runs, or later, once the patched function has
\* returned. The wrapper starts the budgets and runs the asyncPost list.
Callback ==
  /\ UNCHANGED aggVars
  /\ done.async.cb
  /\ done.async.calls < MaxCalls
  /\ \/ stack # <<>> /\ Top.pc = "orig"
     \/ stack = <<>> /\ \E k \in 1..Len(done.log) : done.log[k] = "orig"
  /\ budget' = BudgetStartCount(budget)
  /\ monitBudget' = BudgetStartCount(monitBudget)
  /\ IF stack = <<>>
     THEN /\ stack' = <<AsyncPhase(Val("callback", "args"), FALSE)>>
          /\ done' = [done EXCEPT !.async.calls = @ + 1,
                                  !.log = @ \o <<"callback", "asyncPost">>]
     ELSE /\ stack' = Append(SetTop([Top EXCEPT !.log = @ \o <<"callback", "asyncPost">>]),
                             AsyncPhase(Val("callback", "args"), FALSE))
          /\ done' = [done EXCEPT !.async.calls = @ + 1]
  /\ UNCHANGED <<lock, blockAll, patch, sess, record, sink>>

\* The original function returns a value, throws, or returns a promise: the post
\* or the fail phase begins. A promise gets the two continuations, and what the
\* post phase is given is the promise of callResult.then(..).catch(..).
OrigReturns ==
  /\ UNCHANGED aggVars
  /\ stack # <<>>
  /\ Top.pc = "orig"
  /\ \E o \in {"value", "throw", "promise"} :
       LET to(kind, value, thrown, began) ==
             stack' = SetTop([Phase(kind, value, thrown, patch, sess, lock)
                                EXCEPT !.log = Top.log \o began])
       IN  CASE o = "value" -> to("post", OrigValue, FALSE, <<"post">>) /\ UNCHANGED done
             [] o = "throw" -> to("fail", OrigFault, TRUE, <<"fail">>) /\ UNCHANGED done
             [] OTHER ->
                  /\ to("post", Val("orig", "promise"), FALSE, <<"promise", "post">>)
                  /\ done' = [done EXCEPT !.async.promise = "pending",
                                          !.async.derived = "pending"]
  /\ budget' = BudgetStartCount(budget)
  /\ monitBudget' = BudgetStartCount(monitBudget)
  /\ UNCHANGED <<lock, blockAll, patch, sess, record, sink>>

\* The promise of the original function settles, once the patched function has
\* returned: the then continuation runs the asyncPost list with the value, or,
\* the promise of then(..) rejecting with the rejection, the catch continuation
\* runs it with the rejection.
Settle ==
  /\ UNCHANGED aggVars
  /\ stack = <<>>
  /\ done.async.promise = "pending"
  /\ \E how \in {"resolved", "rejected"} :
       /\ done' = [done EXCEPT !.async.promise = how,
                               !.log = @ \o <<how, "asyncPost">>]
       /\ stack' = << IF how = "resolved" THEN AsyncPhase(Val("then", "arg"), FALSE)
                      ELSE AsyncPhase(Val("catch", "err"), TRUE) >>
  /\ budget' = BudgetStartCount(budget)
  /\ monitBudget' = BudgetStartCount(monitBudget)
  /\ UNCHANGED <<lock, blockAll, patch, sess, record, sink>>

\* The then continuation has faulted: the catch continuation runs the asyncPost
\* list again, with that fault.
Catch ==
  /\ UNCHANGED aggVars
  /\ stack = <<>>
  /\ done.async.react = "catch"
  /\ done' = [done EXCEPT !.async.react = "none",
                          !.log = @ \o <<"caught", "asyncPost">>]
  /\ stack' = <<AsyncPhase(Val("catch", "TypeError"), TRUE)>>
  /\ budget' = BudgetStartCount(budget)
  /\ monitBudget' = BudgetStartCount(monitBudget)
  /\ UNCHANGED <<lock, blockAll, patch, sess, record, sink>>

\* The asyncPost list has been run: actOnCbResult, whose action is dropped ("no
\* action possible"), the budgets stop, and the continuation ends. The wrapper
\* of the callback calls session.budget.stopCount(session.monitBudget) and then
\* session.budget.stopCount() once more.
AsyncAct ==
  /\ UNCHANGED aggVars
  /\ stack # <<>>
  /\ Top.pc = "act"
  /\ Top.kind = "asyncPost"
  /\ \E env \in CallEnvs :
       LET f == Top
           T0 == [record |-> record, sink |-> sink]
           a == actOnCbResult(Results(f), sess, blockAll, env, T0)
           k == Selected(Results(f), blockAll)
       IN  /\ (k # 0 /\ Results(f)[k].status = "RAISE") \/ Calm(env)
           /\ record' = a.T.record
           /\ sink' = a.T.sink
           /\ LET events == IF a.action.isNull THEN <<"aggregated">>
                            ELSE <<"aggregated", "SKIP">>
              IN  /\ stack' = AsyncRest(events)
                  /\ done' = AsyncEnds(f, FALSE, events)
  /\ budget' = IF Top.value.src = "callback"
               THEN BudgetStopCount(BudgetStopCount(budget))
               ELSE BudgetStopCount(budget)
  /\ monitBudget' = BudgetStopCount(monitBudget)
  /\ UNCHANGED <<lock, blockAll, patch, sess>>

\* A request reaches a call site with asyncPost callbacks, with a callback as
\* its last argument or not (cb), and the patched function leaves the fast path
\* aside.
AsyncCall ==
  /\ UNCHANGED aggVars
  /\ stack = <<>>
  /\ done = NoCall
  /\ \E s \in Sessions, cb \in BOOLEAN, r1 \in 0..MaxRemain, r2 \in 0..MaxRemain :
       /\ ~s.lost /\ ~s.req.whitelist /\ ~s.req.replayed
       /\ ~FastPath(NewBudget(Ms(r1)), NewBudget(Ms(r2)), lock, patch)
       /\ sess' = s
       /\ budget' = BudgetStartCount(NewBudget(Ms(r1)))
       /\ monitBudget' = BudgetStartCount(NewBudget(Ms(r2)))
       /\ stack' = <<Phase("pre", NoValue, FALSE, patch, s, lock)>>
       /\ done' = [Ended("slow", "running", "none", NoValue, <<>>)
                     EXCEPT !.async = [NoAsync EXCEPT !.cb = cb]]
  /\ record' = NewRecord
  /\ sink' = NewSink
  /\ UNCHANGED <<lock, blockAll, patch>>

\* The request is over: its context is gone, and its Record with it.
EndRequest ==
  /\ UNCHANGED aggVars
  /\ stack = <<>>
  /\ done.path # "none"
  /\ sess' = LostSession
  /\ budget' = BudgetZERO
  /\ monitBudget' = BudgetZERO
  /\ record' = NewRecord
  /\ sink' = NewSink
  /\ done' = NoCall
  /\ UNCHANGED <<lock, blockAll, patch, stack>>

\* The installer updates the callbacks of the call site, between two requests.
UpdateCallback ==
  /\ UNCHANGED aggVars
  /\ stack = <<>>
  /\ done = NoCall
  /\ \E params \in Params :
       /\ NbCbs(updateCallback(patch, params)) <= MaxCbs
       /\ patch' = updateCallback(patch, params)
  /\ UNCHANGED <<lock, blockAll, sess, budget, monitBudget, stack, record, sink, done>>

\* The agent removes the callbacks of every call site, between two requests.
RemoveAllCallbacks ==
  /\ UNCHANGED aggVars
  /\ stack = <<>>
  /\ done = NoCall
  /\ patch' = removeAllCallbacks(patch)
  /\ UNCHANGED <<lock, blockAll, sess, budget, monitBudget, stack, record, sink, done>>

\* ------------------------------------------------------------------ specification

Init ==
  /\ lock = FALSE
  /\ blockAll = FALSE
  /\ patch = NewPatch
  /\ sess = LostSession
  /\ budget = BudgetZERO
  /\ monitBudget = BudgetZERO
  /\ stack = <<>>
  /\ record = NewRecord
  /\ sink = NewSink
  /\ done = NoCall
  /\ aggList = <<>>
  /\ outcome = NoOutcome
  /\ fuzzer = NewFuzzer
  /\ callCount = NoCounts
  /\ logged = NotLogging

Next ==
  \/ UpdateCallback
  \/ RemoveAllCallbacks
  \/ EndRequest
  \/ Call
  \/ NestedCall
  \/ RunRule
  \/ BodyReturn
  \/ BodyThrow
  \/ Act

Spec == Init /\ [][Next]_vars

\* ------------------------------------------------------------------ actOnCbResult on its own

\* The results rule bodies hand back, as actOnCbResult reads them: nothing; a
\* status (one that is neither RAISE nor SKIP included) of a rule that is a
\* dry run or not, with attack infos (record) or without; a RAISE of a rule
\* that does not block; a RAISE that carries a session of its own; and the
\* result of a monitoring rule, with observations, data points and the payload
\* mark.
AggRule(test, block) ==
  [name |-> 0, purpose |-> "protection", cap |-> FALSE, test |-> test,
   block |-> block, enabled |-> TRUE]
OwnSession ==
  [given |-> TRUE,
   s |-> [lost |-> FALSE,
          req |-> [present |-> TRUE, uuid |-> FALSE, stored |-> FALSE,
                   whitelist |-> FALSE, replayed |-> FALSE],
          res |-> TRUE, onRaise |-> 0]]
AggResult(st, test, block, rec) ==
  [EmptyResult EXCEPT !.full = TRUE, !.status = st, !.record = rec,
                      !.newReturnValue = IF st = "none" THEN "undefined" ELSE "X",
                      !.rule = AggRule(test, block)]
AggShapes ==
  {EmptyResult,
   AggResult("none", FALSE, TRUE, TRUE),
   AggResult("OTHER", FALSE, TRUE, FALSE),
   AggResult("RAISE", FALSE, FALSE, TRUE),
   [AggResult("RAISE", FALSE, TRUE, TRUE) EXCEPT !.originalSession = OwnSession],
   [EmptyResult EXCEPT !.full = TRUE, !.observations = TRUE, !.data_points = TRUE,
                       !.payload = TRUE,
                       !.rule = [AggRule(FALSE, FALSE) EXCEPT !.purpose = "monitoring"]]}
  \cup {AggResult("SKIP", t, TRUE, FALSE) : t \in BOOLEAN}
  \cup {AggResult("RAISE", t, TRUE, rec) : t \in BOOLEAN, rec \in BOOLEAN}

\* The result lists of a phase: the i-th result is that of the i-th rule.
Named(l) ==
  [i \in 1..Len(l) |-> IF l[i].full THEN [l[i] EXCEPT !.rule.name = i] ELSE l[i]]
AggLists == {Named(l) : l \in UNION {[1..n -> AggShapes] : n \in 0..MaxCbs}}

\* The sessions actOnCbResult is called with: the context was lost; a traced
\* request with its Record, with a subscribed 'raise' callback or none; a
\* request and its response before tracing (no uuid, no Record); a request
\* without a response handle; a request replayed by the fuzzer.
TracedSession == [lost |-> FALSE, req |-> Traced, res |-> TRUE, onRaise |-> 1]
AggSessions ==
  {LostSession, TracedSession, [TracedSession EXCEPT !.onRaise = 0],
   [TracedSession EXCEPT !.req.uuid = FALSE, !.req.stored = FALSE],
   [TracedSession EXCEPT !.res = FALSE],
   [TracedSession EXCEPT !.req.replayed = TRUE]}


\* actOnCbResult(resultList, session) is called once, in an environment env.
AggAct ==
  /\ ~outcome.called
  /\ \E env \in Envs :
       LET r == actOnCbResult(aggList, sess, blockAll, env,
                              [record |-> record, sink |-> sink])
       IN  /\ outcome' = [called |-> TRUE, action |-> r.action, env |-> env]
           /\ record' = r.T.record
           /\ sink' = r.T.sink
  /\ UNCHANGED <<lock, blockAll, patch, sess, budget, monitBudget, stack, done, aggList,
                 callCount, logged, fuzzer>>

InitAgg ==
  /\ lock = FALSE
  /\ blockAll \in BOOLEAN
  /\ patch = NewPatch
  /\ sess \in AggSessions
  /\ budget = BudgetZERO
  /\ monitBudget = BudgetZERO
  /\ stack = <<>>
  /\ record = NewRecord
  /\ sink = NewSink
  /\ done = NoCall
  /\ aggList \in AggLists
  /\ outcome = NoOutcome
  /\ fuzzer = NewFuzzer
  /\ callCount = NoCounts
  /\ logged = NotLogging

NextAgg == AggAct

SpecAgg == InitAgg /\ [][NextAgg]_vars

\* ------------------------------------------------------------------ asynchronous call sites

\* The call sites with asyncPost callbacks: an asyncPost list, and at most one
\* other list.
AsyncSites ==
  { updateCallback(updateCallback(NewPatch,
                                  [NoParams EXCEPT !.asyncPostCbs = Given(l)]), params) :
      l \in Lists \ {<<>>}, params \in Params }

InitAsync ==
  /\ lock = FALSE
  /\ blockAll = FALSE
  /\ patch \in {p \in AsyncSites : NbCbs(p) <= MaxCbs}
  /\ sess = LostSession
  /\ budget = BudgetZERO
  /\ monitBudget = BudgetZERO
  /\ stack = <<>>
  /\ record = NewRecord
  /\ sink = NewSink
  /\ done = NoCall
  /\ aggList = <<>>
  /\ outcome = NoOutcome
  /\ fuzzer = NewFuzzer
  /\ callCount = NoCounts
  /\ logged = NotLogging

NextAsync ==
  \/ AsyncCall
  \/ RunRule
  \/ BodyReturn
  \/ BodyThrow
  \/ Act
  \/ Callback
  \/ OrigReturns
  \/ Settle
  \/ Catch
  \/ AsyncAct
  \/ EndRequest

SpecAsync == InitAsync /\ [][NextAsync]_vars

\* ------------------------------------------------------------------ call counts

\* runCbs has run a list of a phase and calls logExec(list, kind).
LogExec ==
  /\ \E n \in 1..MaxCbs : \E cbList \in [1..n -> LogRules], kind \in LogKinds :
       LET S == logExec(cbList, kind, [callCount |-> callCount, logged |-> logged])
       IN  /\ \A name \in 1..MaxInterval :
                logged.seen[[name |-> name, kind |-> kind]] + TimesIn(cbList, name)
                  <= MaxDispatches
           /\ callCount' = S.callCount
           /\ logged' = S.logged
  /\ UNCHANGED <<lock, blockAll, patch, sess, budget, monitBudget, stack, record, sink,
                 done, aggList, outcome, fuzzer>>

InitLog ==
  /\ lock = FALSE
  /\ blockAll = FALSE
  /\ patch = NewPatch
  /\ sess = LostSession
  /\ budget = BudgetZERO
  /\ monitBudget = BudgetZERO
  /\ stack = <<>>
  /\ record = NewRecord
  /\ sink = NewSink
  /\ done = NoCall
  /\ aggList = <<>>
  /\ outcome = NoOutcome
  /\ fuzzer = NewFuzzer
  /\ callCount = NoCounts
  /\ logged \in {Logging(on) : on \in BOOLEAN}

NextLog == LogExec

SpecLog == InitLog /\ [][NextLog]_vars

\* ------------------------------------------------------------------ the fuzzer on its own

\* initRequest is called for a request, or for none (0).
InitRequest ==
  /\ \E r \in 0..MaxReqs, valid \in BOOLEAN : fuzzer' = initRequest(fuzzer, r, valid)
  /\ UNCHANGED <<lock, blockAll, patch, sess, budget, monitBudget, stack, record, sink,
                 done, aggList, outcome, callCount, logged>>

\* finalizeRequest is called for a request, or for none (0).
FinalizeRequest ==
  /\ \E r \in 0..MaxReqs, ret \in FinalizeResults :
       /\ r # 0 => fuzzer.reqs[r].finalized < MaxFinalize
       /\ fuzzer' = finalizeRequest(fuzzer, r, ret)
  /\ UNCHANGED <<lock, blockAll, patch, sess, budget, monitBudget, stack, record, sink,
                 done, aggList, outcome, callCount, logged>>

\* mutateInputRequests is called, once for the run.
MutationsBegin ==
  /\ fuzzer.run = "idle"
  /\ fuzzer' = mutationsBegin(fuzzer)
  /\ UNCHANGED <<lock, blockAll, patch, sess, budget, monitBudget, stack, record, sink,
                 done, aggList, outcome, callCount, logged>>

\* The last mutated request has been handed to the callback, or the callback
\* has refused one: done().
MutationsEnd ==
  /\ fuzzer.run = "running"
  /\ fuzzer' = mutationsEnd(fuzzer)
  /\ UNCHANGED <<lock, blockAll, patch, sess, budget, monitBudget, stack, record, sink,
                 done, aggList, outcome, callCount, logged>>

NextFuzz ==
  \/ InitRequest
  \/ FinalizeRequest
  \/ MutationsBegin
  \/ MutationsEnd

\* The fuzzer is new, and nothing else moves.
InitFuzz == InitLog

SpecFuzz == InitFuzz /\ [][NextFuzz]_vars

\* mutateInputRequests goes through finite arrays: it comes to done().
SpecFuzzLive == SpecFuzz /\ WF_vars(MutationsEnd)

\* ------------------------------------------------------------------ properties

\* The calls of the patched function in progress, and the iterations a call's
\* current list has gone through.
Frames == {stack[k] : k \in 1..Len(stack)}
Entries(f) == {f.trace[j] : j \in 1..Len(f.trace)}

\* runCbs was called for the current phase of f and got past its early returns.
Dispatching(f) == f.gate = "run"

\* C1: whenever runCbs is invoked, for any list and any phase, while the dispatch
\* lock is held, it returns an empty result list at once: no rule body is run, no
\* exception cap is ticked and no budget start() or stop() is made.
C1_LockedInvocationReturnsEmpty ==
  \A f \in Frames :
    f.gate # "none" /\ f.entryLock =>
      /\ f.pc = "act"
      /\ f.gate \in {"lock", "whitelist"}
      /\ Results(f) = <<>>
      /\ \A e \in Entries(f) : ~e.ran /\ e.starts = 0 /\ e.stops = 0 /\ e.ticks = <<>>

\* A rule body has called the patched function while the lock is held, and the
\* runCbs of that call has returned because of the lock.
C1_Witness ==
  /\ Len(stack) = 2
  /\ stack[1].pc = "body"
  /\ stack[2].gate = "lock"
  /\ lock

\* C2: in every state where no runCbs invocation is in progress the dispatch
\* lock is not held: it is always cleared after an invocation that set it,
\* faults included.
C2_LockClearedAfterInvocation == stack = <<>> => lock = FALSE

\* C3, as claimed: the lock is held from before the first rule of a list until
\* after the last one, and is not released between two rules of the list.
C3_LockHeldAcrossList ==
  \A f \in Frames : Dispatching(f) /\ f.pc \in {"loop", "body"} => lock

\* C3, amended: the lock is held while a rule of the list is being processed
\* (from just before runUniqueCb is called until it returns) and is not held
\* before, between or after the rules of the list.
C3_LockHeldPerRule ==
  /\ \A f \in Frames : f.pc = "body" => lock
  /\ stack # <<>> /\ Dispatching(Top) /\ Top.pc \in {"loop", "act"} => ~lock

\* The first rule of a list of two has been processed, the second has not
\* begun, and the lock is free.
C3_Witness ==
  /\ stack # <<>>
  /\ Dispatching(Top)
  /\ Top.pc = "loop"
  /\ Top.i = 2
  /\ Top.trace[1].ran
  /\ ~lock

\* C4: a fault thrown by a rule body does not leave the pipeline, the rest of the
\* list is still processed, the result of the failing rule is empty, and its
\* exception cap is ticked exactly once, with failed = true, and what tick
\* returned is stored into rule.enabled.
C4_BodyFaultIsIsolated ==
  /\ done.by # "body"
  /\ \A f \in Frames : \A j \in 1..Len(f.trace) :
       LET e == f.trace[j] IN
       e.threw =>
         /\ e.result = EmptyResult
         /\ f.i > j
         /\ e.desc.rule.cap =>
              /\ Len(e.ticks) = 1
              /\ e.ticks[1].failed
              /\ ListOf(patch, f.kind)[j].rule.enabled = e.ticks[1].ret

\* C6: every callback of a list is processed, in list order, whatever status an
\* earlier rule of the list returned, and the result list has one entry per rule
\* in the same order.
C6_EveryRuleProcessedInOrder ==
  \A f \in Frames :
    Dispatching(f) =>
      LET list == ListOf(patch, f.kind) IN
      /\ Len(f.trace) = IF f.pc = "body" THEN f.i ELSE f.i - 1
      /\ Len(f.trace) <= Len(list)
      /\ \A j \in 1..Len(f.trace) :
           /\ f.trace[j].desc.rule.name = list[j].rule.name
           /\ f.trace[j].result.full => f.trace[j].result.rule.name = list[j].rule.name
      /\ f.pc = "act" => Len(Results(f)) = Len(list)

\* A list of two has been run to its end: the first rule returned SKIP or RAISE
\* and the body of the second was run all the same.
C6_Witness ==
  /\ stack # <<>>
  /\ Dispatching(Top)
  /\ Top.pc = "act"
  /\ Len(Top.trace) = 2
  /\ Top.trace[1].result.status \in {"SKIP", "RAISE"}
  /\ Top.trace[2].ran
  /\ Top.trace[2].result.full

\* C9: when the effective budget has nothing left and the descriptor is not
\* marked noBudget, runUniqueCb does not run the body, returns an empty result,
\* makes no start() and no stop() and does not tick the exception cap.
C9_ExhaustedBudgetSkipsRule ==
  \A f \in Frames : \A e \in Entries(f) :
    e.eff # "none" /\ LeZero(e.remain) /\ ~e.desc.noBudget =>
      /\ ~e.ran
      /\ e.result = EmptyResult
      /\ e.starts = 0
      /\ e.stops = 0
      /\ e.ticks = <<>>

\* An enabled rule was skipped for want of budget, after an earlier rule of the
\* same list had used the budget up.
C9_Witness ==
  \E f \in Frames :
    /\ Len(f.trace) = 2
    /\ f.trace[1].ran
    /\ f.trace[2].how = "nobudget"
    /\ f.trace[2].desc.rule.enabled

AggActionable ==
  {i \in 1..Len(aggList) :
     /\ aggList[i].status \in {"RAISE", "SKIP"}
     /\ ~aggList[i].rule.test \/ blockAll}
AggFirst ==
  IF AggActionable = {} THEN 0
  ELSE CHOOSE i \in AggActionable : \A j \in AggActionable : i <= j
AsSkip(r) == [r EXCEPT !.status = "SKIP"]
AggOwn == {i \in 1..Len(aggList) : aggList[i].originalSession.given}
AggSession ==
  IF AggOwn = {} THEN sess
  ELSE aggList[CHOOSE i \in AggOwn : \A j \in AggOwn : i <= j].originalSession.s
AggHasPlainSkip ==
  \E i \in 1..Len(aggList) : aggList[i].status = "SKIP" /\ ~aggList[i].rule.test

\* C5, as claimed: if a result of the list has status SKIP and its rule is not a
\* dry run, the action of the phase is the first actionable result in list
\* order, and no later result is selected instead of an earlier actionable one.
C5_ActionIsFirstActionable ==
  outcome.called /\ AggHasPlainSkip =>
    outcome.action = Some(AsSkip(aggList[AggFirst]))

\* C5, amended: if a result of the list has status SKIP and its rule is not a
\* dry run, the action of the phase is the first actionable result in list
\* order, or there is no action at all when that first actionable result is a
\* RAISE and one of its side effects faults; a later result is never selected.
C5_ActionIsFirstActionableOrNone ==
  outcome.called /\ AggHasPlainSkip =>
    /\ outcome.action \in {Null, Some(AsSkip(aggList[AggFirst]))}
    /\ outcome.action = Null =>
         /\ aggList[AggFirst].status = "RAISE"
         /\ outcome.env.raiseFault \/ outcome.env.dropFault

\* A SKIP of a dry-run rule comes first and is passed over; the SKIP of the
\* second rule is the action.
C5_Witness ==
  /\ outcome.called
  /\ ~blockAll
  /\ Len(aggList) = 2
  /\ aggList[1].status = "SKIP" /\ aggList[1].rule.test
  /\ aggList[2].status = "SKIP" /\ ~aggList[2].rule.test
  /\ outcome.action = Some(aggList[2])

C8_DryRunGate ==
  outcome.called =>
    /\ ~blockAll =>
         /\ ~outcome.action.isNull => ~outcome.action.r.rule.test
         /\ sink.raised > 0 \/ sink.dropped > 0 =>
              /\ AggFirst # 0
              /\ aggList[AggFirst].status = "RAISE"
              /\ ~aggList[AggFirst].rule.test
         /\ (\A i \in 1..Len(aggList) :
               aggList[i].status # "none" => aggList[i].rule.test)
              => /\ outcome.action = Null
                 /\ sink.raised = 0
                 /\ sink.dropped = 0
    /\ blockAll =>
         \A i \in 1..Len(aggList) :
           /\ aggList[i].rule.test
           /\ aggList[i].status \in {"RAISE", "SKIP"}
           /\ \A j \in 1..(i - 1) : aggList[j].status \notin {"RAISE", "SKIP"}
           /\ ~outcome.env.raiseFault /\ ~outcome.env.dropFault
           => /\ outcome.action = Some(AsSkip(aggList[i]))
              /\ aggList[i].status = "RAISE" =>
                   /\ sink.raised = AggSession.onRaise
                   /\ sink.dropped =
                        IF AggSession.req.present /\ AggSession.res THEN 1 ELSE 0

\* Without the override, the RAISE of a dry-run rule on a request that could be
\* dropped is passed over, and the SKIP of the next rule is the action.
C8_Witness ==
  /\ outcome.called
  /\ ~blockAll
  /\ sess.req.present /\ sess.res /\ sess.onRaise > 0
  /\ Len(aggList) = 2
  /\ aggList[1].status = "RAISE" /\ aggList[1].rule.test
  /\ aggList[2].status = "SKIP" /\ ~aggList[2].rule.test
  /\ outcome.action = Some(aggList[2])
  /\ sink.raised = 0
  /\ sink.dropped = 0

\* C11: in every phase a monitoring rule is gated and debited against the
\* monitoring budget of the session and every other rule against its standard
\* budget (a reveal rule, which the dispatcher gives an infinite budget of its
\* own, set aside): no rule gets an infinite budget while the session's budget
\* objects are supplied.
C11_BudgetFollowsPurpose ==
  \A f \in Frames : \A e \in Entries(f) :
    e.eff # "none" /\ e.desc.rule.purpose # "reveal" =>
      e.eff = IF e.desc.rule.purpose = "monitoring" THEN "monitBudget" ELSE "budget"

\* The results of aggList whose routing was gone through: a fault of a
\* collaborator while a result is routed ends the routing of the list.
AggHasItems(r) == r.record \/ r.observations \/ r.data_points
AggRoutedThrough ==
  LET k == outcome.env.faultAt
  IN  {i \in 1..Len(aggList) :
         ~(k \in 1..Len(aggList) /\ AggHasItems(aggList[k]) /\ i >= k)}
\* The request of the i-th result has an id and a Record in the store.
AggHasRecord(i) ==
  LET req == (IF aggList[i].originalSession.given
              THEN aggList[i].originalSession.s ELSE sess).req
  IN  req.present /\ req.uuid /\ req.stored
\* How many entries of a sequence satisfy a test.
AggCount(seq, Test(_)) == Cardinality({k \in 1..Len(seq) : Test(seq[k])})

Over == done.path # "none" /\ done.out # "running"
Times(log, what) == Cardinality({k \in 1..Len(log) : log[k] = what})
ActedIn(log, kind) ==
  \E k \in 1..Len(log) - 1 : log[k] = kind /\ log[k + 1] = "SKIP"

\* C14: when the action of the BEFORE phase is SKIP, the patched function
\* returns the newReturnValue of that action, the original function is never
\* called, and no ON-FAILURE, AFTER or ASYNC-AFTER phase runs: neither in a call
\* that is over nor in one still on the stack.
C14_PreSkipShortCircuits ==
  /\ Over /\ ActedIn(done.log, "pre") =>
       /\ done.out = "override"
       /\ done.ret = Val("pre", "X")
       /\ done.log = <<"pre", "SKIP">>
  /\ \A f \in Frames : ~ActedIn(f.log, "pre")

\* A call with rules in the BEFORE list, one of which returned SKIP, is over.
C14_Witness ==
  /\ Over
  /\ done.log = <<"pre", "SKIP">>
  /\ done.ret = Val("pre", "X")
  /\ Len(patch.preCbs) > 0

\* C15: the original function is called exactly once in every call of the
\* patched function, and not at all when the BEFORE action is SKIP.
C15_OriginalCalledOnce ==
  Over => Times(done.log, "orig") = IF ActedIn(done.log, "pre") THEN 0 ELSE 1

\* C16: when the original function throws, the ON-FAILURE list runs with the
\* fault; the call yields the newReturnValue of a SKIP action of that phase,
\* and rethrows the fault of the original function when there is no action.
C16_FailPhaseDecides ==
  Over /\ Times(done.log, "fail") = 1 =>
    IF ActedIn(done.log, "fail")
    THEN done.ret = Val("fail", "X")
    ELSE done.out = "rethrow" /\ done.ret = OrigFault

\* The faults of one actOnCbResult call: a collaborator faults while a result
\* with something to route is routed; a subscribed callback or the drop of the
\* request faults in the RAISE branch of the selected result.
AggFaultRouting ==
  outcome.env.faultAt \in 1..Len(aggList) /\ AggHasItems(aggList[outcome.env.faultAt])
AggFaultRaise ==
  /\ AggFirst # 0
  /\ aggList[AggFirst].status = "RAISE"
  /\ \/ AggSession.onRaise > 0 /\ outcome.env.raiseFault
     \/ AggSession.req.present /\ AggSession.res /\ outcome.env.dropFault

\* C20, as claimed: a fault inside actOnCbResult, while telemetry is routed or
\* while the request is dropped, is reported to the Exception Reporter and the
\* aggregation yields null.
C20_FaultYieldsNull ==
  outcome.called /\ (AggFaultRouting \/ AggFaultRaise) =>
    /\ sink.exceptions # <<>>
    /\ outcome.action = Null

\* C20, amended: every fault inside actOnCbResult is reported to the Exception
\* Reporter, once, and nothing is reported without a fault; a fault of the RAISE
\* branch (subscribed callbacks, drop of the request) makes the aggregation
\* yield null, while a fault of the telemetry routing only ends the routing.
C20_FaultIsCaughtAndReported ==
  outcome.called =>
    /\ AggFaultRaise => outcome.action = Null
    /\ sink.exceptions =
         (IF AggFaultRouting THEN <<"routing">> ELSE <<>>)
           \o (IF AggFaultRaise THEN <<"aggregation">> ELSE <<>>)

\* The drop of the request faults for a selected RAISE: reported, no action,
\* after the subscribed callback has run.
C20_Witness ==
  /\ outcome.called
  /\ outcome.env.dropFault /\ ~outcome.env.raiseFault
  /\ AggFaultRaise
  /\ ~AggFaultRouting
  /\ sink.raised = 1
  /\ sink.dropped = 0
  /\ sink.exceptions = <<"aggregation">>
  /\ outcome.action = Null

\* What the outermost call of the patched function has begun so far, in order,
\* its continuations included, and where an event is in it.
CallLog ==
  IF stack # <<>> /\ stack[1].kind # "asyncPost" THEN stack[1].log ELSE done.log
At(what) == {k \in 1..Len(CallLog) : CallLog[k] = what}
Before(k, whats) == \E j \in 1..(k - 1) : CallLog[j] \in whats
Settled == {"resolved", "rejected"}

\* C13, as claimed: the BEFORE phase is over before the original function
\* starts; the original function has completed, and the promise it returned has
\* settled, before ON-FAILURE or AFTER begins; ON-FAILURE or AFTER is over
\* before ASYNC-AFTER begins.
C13_PhasesStrictlyOrdered ==
  /\ \A i \in At("orig") : \A j \in At("pre") : j < i
  /\ \A i \in At("post") \cup At("fail") :
       /\ Before(i, {"orig"})
       /\ At("promise") # {} => Before(i, Settled)
  /\ \A i \in At("asyncPost") : Before(i, {"post", "fail"})

\* C13, amended: the BEFORE phase is over before the original function starts;
\* the original function has returned (a value or a promise, settled or not) or
\* thrown before ON-FAILURE or AFTER begins; ASYNC-AFTER begins only after the
\* original function was called, and, when it is a continuation of the promise,
\* only after the promise settled, the AFTER phase is over and the patched
\* function has returned.
C13_PhasesOrdered ==
  /\ \A i \in At("orig") : \A j \in At("pre") : j < i
  /\ \A i \in At("post") \cup At("fail") : Before(i, {"orig"})
  /\ \A i \in At("asyncPost") :
       /\ Before(i, {"orig"})
       /\ CallLog[i - 1] \in Settled \cup {"caught"} =>
            /\ Before(i, {"post"})
            /\ Before(i, Settled)
            /\ done.out # "running"
            /\ Len(stack) <= 1

\* A call that returned a promise: BEFORE, the original function, AFTER, then
\* the settlement and ASYNC-AFTER.
C13_Witness ==
  /\ stack = <<>>
  /\ Len(patch.preCbs) > 0
  /\ done.log = <<"pre", "orig", "promise", "post", "resolved", "asyncPost",
                  "aggregated">>

\* C17, as claimed: when the promise of the original function rejects, the
\* ON-FAILURE list runs, and a SKIP makes the caller's promise resolve.
C17_RejectionRunsFailPhase ==
  done.async.promise = "rejected" /\ stack = <<>> =>
    /\ Before(Len(CallLog) + 1, {"fail"})
    /\ Before(Len(CallLog) + 1, {"SKIP"}) => done.async.derived = "resolved"

\* C17, amended: when the promise of the original function rejects, the
\* ASYNC-AFTER list, not the ON-FAILURE list, is dispatched with the rejection
\* as value, and no action is applied: the caller's promise is rejected, never
\* resolved, whatever the rules returned.
C17_RejectionRunsAsyncPost ==
  done.async.promise = "rejected" =>
    /\ At("fail") = {}
    /\ \A i \in At("rejected") : i < Len(CallLog) /\ CallLog[i + 1] = "asyncPost"
    /\ done.async.derived = "pending" =>
         /\ Len(stack) = 1
         /\ Top.kind = "asyncPost"
         /\ Top.value = Val("catch", "err")
    /\ done.async.derived # "pending" =>
         /\ done.async.derived \in {"rejected", "faulted"}
         /\ \A i \in At("rejected") :
              CallLog[i + 2] = IF done.async.derived = "rejected" THEN "aggregated"
                               ELSE "faulted"

\* The promise rejected, a rule of the ASYNC-AFTER list returned SKIP and the
\* caller's promise is rejected with the rejection.
C17_Witness ==
  /\ stack = <<>>
  /\ done.async.promise = "rejected"
  /\ done.async.derived = "rejected"
  /\ done.log = <<"pre", "orig", "promise", "post", "rejected", "asyncPost",
                  "aggregated", "SKIP">>

\* C18: the aggregation of the ASYNC-AFTER phase runs exactly once per call: at
\* most once, and once when the promise the caller got has settled.
C18_AsyncPostAggregatesOnce ==
  /\ Cardinality(At("aggregated")) <= 1
  /\ done.async.derived \in {"resolved", "rejected", "faulted"} =>
       Cardinality(At("aggregated")) = 1

\* C19: with the call counts on, a rule whose call_count_interval is N >= 1
\* emits at exactly every N-th dispatch of its key (the N-th, the 2N-th, ...),
\* at no other, and its counter is 0 after each emission.
C19_EveryNthDispatchEmits ==
  logged.on =>
    \A key \in LogKeys :
      LET N == call_count_interval(key.name)
      IN  /\ logged.emitted[key] = {d \in 1..logged.seen[key] : d % N = 0}
          /\ logged.seen[key] > 0 /\ logged.seen[key] % N = 0 =>
               callCount[key] = Num(0)

\* The request of the current call has an id and a Record in the store.
HasRecord == sess.req.present /\ sess.req.uuid /\ sess.req.stored

\* C21: the fault of a rule body goes to exactly one destination, the Record of
\* the request when the request has an id and a stored Record, the global
\* Exception Reporter otherwise; no fault of a body leaves the pipeline
\* without having been handed to one of the two.
C21_BodyFaultRoutedOnce ==
  /\ done.by # "body"
  /\ \A f \in Frames : \A e \in Entries(f) :
       e.threw => e.routed = IF HasRecord THEN "record" ELSE "reporter"

\* The phases, and the rule of the i-th descriptor of a list of a call site.
Kinds == {"pre", "fail", "post", "asyncPost"}
RuleAt(p, kind, i) == ListOf(p, kind)[i].rule

\* A rule that was disabled when runUniqueCb was called for it: no body, no
\* start() and no stop() of a budget, no tick of the exception cap, {} returned.
C22_DisabledRuleIsLeftAlone ==
  \A f \in Frames : \A e \in Entries(f) :
    e.eff # "none" /\ ~e.desc.rule.enabled =>
      /\ e.how = "disabled"
      /\ ~e.ran
      /\ e.starts = 0
      /\ e.stops = 0
      /\ e.ticks = <<>>
      /\ e.result = EmptyResult

\* A disabled rule of a list is enabled at the same place after a step only
\* when the step is an update of the call site by the installer.
C22_EnabledOnlyByUpdate ==
  \A kind \in Kinds : \A i \in 1..Len(ListOf(patch, kind)) :
    /\ ~RuleAt(patch, kind, i).enabled
    /\ i <= Len(ListOf(patch', kind))
    /\ RuleAt(patch', kind, i).enabled
    => /\ stack = <<>>
       /\ \E params \in Params : patch' = updateCallback(patch, params)

\* C22: once the exception cap of a rule has set rule.enabled to false, no later
\* invocation of any phase runs the body of the rule, debits a budget for it or
\* ticks its cap, and the rule is enabled again only by a new set of rules from
\* the installer.
C22_AutoDisableIsPermanent ==
  []C22_DisabledRuleIsLeftAlone /\ [][C22_EnabledOnlyByUpdate]_vars

\* A rule that its exception cap has disabled is met by a later dispatch, and
\* left alone.
C22_Witness ==
  \E f \in Frames : \E e \in Entries(f) :
    /\ e.how = "disabled"
    /\ e.desc.rule.cap
    /\ ~e.ran
    /\ LeZero(e.remain) = FALSE

\* The field of updateCallback's params for the list of a phase.
ParamOf(params, kind) ==
  CASE kind = "pre" -> params.preCbs
    [] kind = "fail" -> params.failCbs
    [] kind = "post" -> params.postCbs
    [] OTHER -> params.asyncPostCbs

\* The step is updateCallback(params) on the call site, and nothing else.
UpdatedWith(params) ==
  /\ stack = <<>>
  /\ done = NoCall
  /\ patch' = updateCallback(patch, params)
  /\ UNCHANGED <<lock, blockAll, sess, budget, monitBudget, stack, record, sink, done>>

\* C23, as claimed: after updateCallback(params) each of the four lists is
\* exactly what the update supplied, and a list the update did not mention
\* holds no rule of the previous set.
C23_UpdateReplacesAllLists ==
  [][\A params \in Params :
       UpdatedWith(params) =>
         \A kind \in Kinds :
           ListOf(patch', kind) = IF ParamOf(params, kind).given
                                  THEN ParamOf(params, kind).list ELSE <<>>]_vars

\* C23, amended: after updateCallback(params) each list the update supplied is
\* exactly what was supplied, nothing of the previous list remaining in it, and
\* each list the update did not mention is what it was before.
C23_UpdateReplacesSuppliedLists ==
  [][\A params \in Params :
       UpdatedWith(params) =>
         \A kind \in Kinds :
           ListOf(patch', kind) = IF ParamOf(params, kind).given
                                  THEN ParamOf(params, kind).list
                                  ELSE ListOf(patch, kind)]_vars

\* Two updates have been made, of two lists: the second kept the list of the
\* first.
C23_Witness ==
  /\ stack = <<>>
  /\ done = NoCall
  /\ Len(patch.preCbs) = 1
  /\ Len(patch.postCbs) = 1
  /\ patch.preCbs[1].rule.name # patch.postCbs[1].rule.name

\* C24: no fault of the pipeline itself leaves the patched function: what the
\* caller gets is the value or the fault of the original function, or the
\* override of a rule.
C24_NoPipelineFaultReachesCaller ==
  Over => done.out # "fault" /\ done.ret.src # "pipeline"

\* The rules whose purpose is reveal, among those a dispatch has met.
RevealEntries(f) == {e \in Entries(f) : e.desc.rule.purpose = "reveal"}

\* The request of the current call carries the fuzzer's mark of a replay.
Replayed == sess.req.present /\ sess.req.replayed

\* C25, as claimed: for a request that is not marked as replayed a reveal rule
\* is skipped (no body, empty result), and a reveal rule gets the unlimited
\* budget only for a replayed request.
C25_RevealOnlyOnReplay ==
  \A f \in Frames : \A e \in RevealEntries(f) :
    /\ ~Replayed => ~e.ran /\ e.result = EmptyResult
    /\ e.eff = "INFINITY" => Replayed

\* C25, amended: for a request that is marked as replayed a reveal rule is
\* skipped before runUniqueCb (no body, no budget, empty result); for any other
\* request runUniqueCb is called for it with the unlimited budget, whatever the
\* budgets of the session have left.
C25_RevealSkippedOnReplay ==
  \A f \in Frames : \A e \in RevealEntries(f) :
    e.desc.hasMethod =>
      IF Replayed
      THEN /\ e.how = "replayed"
           /\ e.eff = "none"
           /\ ~e.ran
           /\ e.starts = 0
           /\ e.result = EmptyResult
      ELSE /\ e.eff = "INFINITY"
           /\ e.remain = Infinity
           /\ e.how # "nobudget"

\* A reveal rule has been skipped for a replayed request.
C25_Witness ==
  /\ Replayed
  /\ \E f \in Frames : \E e \in RevealEntries(f) : e.how = "replayed" /\ f.pc = "act"

\* Where the sinks' log has an event of a kind.
Logged(evs) == {i \in 1..Len(sink.log) : sink.log[i].ev \in evs}

\* No routing event of the log comes after a control event.
RoutedBeforeControl ==
  \A i \in Logged({"route"}) : \A j \in Logged({"raise", "drop", "http_code"}) : i < j

\* The telemetry of the k-th result of the list has been routed.
AggRouted(k) == \E i \in Logged({"route"}) : sink.log[i].rule = k

C27_FailAndPostExclusive ==
  Over /\ Len(patch.failCbs) > 0 /\ Len(patch.postCbs) > 0 =>
    ~(Times(done.log, "fail") > 0 /\ Times(done.log, "post") > 0)

\* How many SKIP actions the ASYNC-AFTER aggregations of the call have yielded,
\* and how many times a continuation passed on the newReturnValue of one.
AsyncSkips ==
  Cardinality({k \in 1..Len(CallLog) - 1 :
                 CallLog[k] = "aggregated" /\ CallLog[k + 1] = "SKIP"})
AsyncOverrides ==
  Cardinality({i \in 1..Len(done.async.seen) : done.async.seen[i].src = "asyncPost"})

\* A SKIP action of the AFTER phase with newReturnValue X: the call returns X.
PostSkipReplaces ==
  Over /\ ActedIn(done.log, "post") => done.out = "override" /\ done.ret = Val("post", "X")

\* C28: a SKIP action of the AFTER phase or of the ASYNC-AFTER phase with
\* newReturnValue X replaces what the caller observes: the value returned, the
\* value passed to the wrapped callback, the value the promise settles with.
C28_SkipReplacesValue ==
  /\ PostSkipReplaces
  /\ AsyncOverrides = AsyncSkips

\* C28, amended: a SKIP action of the AFTER phase replaces the value returned;
\* the action of the ASYNC-AFTER phase is dropped, and every continuation that
\* ends passes on what the original function gave it.
C28_OnlyPostSkipReplaces ==
  /\ PostSkipReplaces
  /\ AsyncOverrides = 0
  /\ Len(done.async.seen) = Times(CallLog, "aggregated")

\* A call returned X by a SKIP of its AFTER phase on the promise of the original
\* function; later the promise resolved, the ASYNC-AFTER list yielded a SKIP,
\* and the caller's promise resolved with the value of the original function.
C28_Witness ==
  /\ Over
  /\ ActedIn(done.log, "post")
  /\ done.ret = Val("post", "X")
  /\ AsyncSkips = 1
  /\ done.async.seen = <<Val("orig", "arg")>>

\* C29: the accounting of the phases is balanced on every path that leaves the
\* fast path aside: stopCount is never called without a startCount left to
\* match, and once the call and its continuations are over every startCount
\* has been matched by a stopCount.
C29_PhaseAccountingBalanced ==
  /\ ~budget.overstopped /\ ~monitBudget.overstopped
  /\ stack = <<>> => ~budget.counting /\ ~monitBudget.counting

\* The iterations whose body was invoked.
Invoked(f) == {e \in Entries(f) : e.ran}

C31_RevealBudgetIsNotInherited ==
  \A f \in Frames : \A e \in Entries(f) :
    e.eff # "none" /\ e.desc.rule.purpose # "reveal" =>
      e.eff = currentBudget(e.desc.rule, f.kind, FALSE, FALSE)

\* C32: after any sequence of updateCallback and removeAllCallbacks the derived
\* flags of the Patch agree with its four lists: hasCbs tells that some list is
\* not empty, hasAsyncCBs that the asyncPost list is not empty, and
\* hasMostNeededCallbacks that some descriptor of some list is marked noBudget.
C32_FlagsAgreeWithLists ==
  /\ patch.hasCbs = (NbCbs(patch) > 0)
  /\ patch.hasAsyncCBs = (Len(patch.asyncPostCbs) > 0)
  /\ patch.hasMostNeededCallbacks =
       (\E kind \in Kinds : hasNoBudgetMethod(ListOf(patch, kind)))

\* The result actOnCbResult selects is a RAISE; a callback subscribed to 'raise'
\* faults; the session has a request and a response; the drop faults.
AggRaises == AggFirst # 0 /\ aggList[AggFirst].status = "RAISE"
AggRaiseFaults == AggSession.onRaise > 0 /\ outcome.env.raiseFault
AggBothHandles == AggSession.req.present /\ AggSession.res
AggDropFaults == AggBothHandles /\ ~AggRaiseFaults /\ outcome.env.dropFault

\* C33: a RAISE that is not a dry run drops the request if and only if the
\* effective session has a request and a response; without one of them nothing
\* is dropped, and the action is still the result with status SKIP, which makes
\* a BEFORE phase return before the original function.
C33_RaiseDropsIffHandles ==
  outcome.called /\ AggRaises =>
    /\ (sink.dropped = 1) <=> AggBothHandles
    /\ outcome.action = Some(AsSkip(aggList[AggFirst]))
    /\ IsSkip(outcome.action)

\* C33, amended: the same as long as no subscribed 'raise' callback and no drop
\* of the request faults; after a fault of a subscribed callback nothing is
\* dropped, and after either fault there is no action at all.
C33_RaiseDropsIffHandlesUnlessFault ==
  outcome.called /\ AggRaises =>
    /\ (sink.dropped = 1) <=> (AggBothHandles /\ ~AggRaiseFaults /\ ~AggDropFaults)
    /\ sink.dropped \in {0, 1}
    /\ IF AggRaiseFaults \/ AggDropFaults
       THEN outcome.action = Null
       ELSE outcome.action = Some(AsSkip(aggList[AggFirst])) /\ IsSkip(outcome.action)

\* A RAISE for a request without a response handle: the subscribed callback is
\* called, nothing is dropped, and the action is the result as a SKIP.
C33_Witness ==
  /\ outcome.called
  /\ AggRaises
  /\ AggSession.req.present /\ ~AggSession.res
  /\ sink.raised = 1
  /\ sink.dropped = 0
  /\ IsSkip(outcome.action)

\* The requests initRequest returned true for and finalizeRequest has not been
\* called for yet.
InFlight == {r \in 1..MaxReqs : fuzzer.reqs[r].accepted /\ fuzzer.reqs[r].finalized = 0}

\* C34: after any sequence of initRequest and finalizeRequest calls the counter
\* _handledreqs is the number of requests accepted and not finalized yet, and
\* it is never negative: a finalizeRequest of an accepted request takes one off,
\* whatever finalize() returns.
C34_HandledCountsInFlight ==
  /\ fuzzer.handledreqs = Cardinality(InFlight)
  /\ fuzzer.handledreqs >= 0

\* 'all_requests_done' is emitted in this step.
Emits == fuzzer'.emitted > fuzzer.emitted

\* C35: once mutateInputRequests has come to done() and every accepted request
\* has been finalized, 'all_requests_done' is eventually emitted, and exactly
\* once; it is never emitted while an accepted request is in flight or before
\* the mutations are done.
C35_AllRequestsDoneOnce ==
  /\ (fuzzer.run = "done" /\ InFlight = {}) ~> (fuzzer.emitted >= 1)
  /\ [](fuzzer.emitted <= 1)
  /\ [][Emits => fuzzer'.run = "done" /\ InFlight' = {}]_vars

\* C36: initRequest returns true exactly when the request becomes one replayed
\* by the fuzzer: a request carries the mark only if initRequest returned true
\* for it, and then it has its FuzzerRequest, so that isRequestReplayed holds of
\* no request without one.
C36_ReplayedHasFuzzerRequest ==
  \A r \in 1..MaxReqs :
    isRequestReplayed(fuzzer.reqs[r]) =>
      fuzzer.reqs[r].accepted /\ fuzzer.reqs[r].fuzzerrequest

====
